---- MODULE Spec2Model ----
(***************************************************************************)
(* A model of the PII analyzer: the shared engine singleton                *)
(* (analyzers/singleton_analyzers.py), the text detectors                  *)
(* (analyzers/*_analyzer.py analyze_text, api.py analyze_text) and the CSV *)
(* redaction (analyzers/csv_analyzer.py).                                  *)
(***************************************************************************)
EXTENDS Integers, Sequences, FiniteSets, TLC

\* ------------------------------------------------------------------ bounds
\* Threads that call into the singleton concurrently.
NThreads == 2
\* Runs of _load_engines the environment lets fail: after that many failures
\* the engines load and warm up.
MaxFailures == 1

Threads == 1..NThreads

\* Longest text handed to a detector.
MaxLen == 2
\* Most results the detection engine emits for one call.
MaxResults == 2
\* Most rows of a CSV table.
MaxRows == 3
\* The calls of pd.read_csv the environment has an answer for.
MaxReads == 3

\* Most entries OCR reports for an image.
MaxWords == 2

\* Most findings handed to the image masker.
MaxFindings == 2

\* The width and height of an image, in pixels.
ImageWidth == 7
ImageHeight == 6

\* Most pieces of a text handed to the PDF masker.
MaxTokens == 4

\* Most names of a requested entity filter.
MaxNames == 2
\* The findings of a document, at most.
MaxPii == 2
\* The uploads answered, at most.
MaxUploads == 2

\* Python's None for references.
None == 0
\* An attribute that was never assigned (reading it raises AttributeError).
Unset == -1

VARIABLES
    \* --- class AnalyzerSingleton and the module global
    instance,            \* AnalyzerSingleton._instance: None or an object id
    lock,                \* AnalyzerSingleton._lock: None (free) or the holding thread
    initialized,         \* AnalyzerSingleton._initialized
    singleton_instance,  \* the module global _singleton_instance
    objects,             \* the objects super().__new__ created, by id: each
                         \* [analyzer_engine, anonymizer_engine]
    runs,                \* the runs of _load_engines started so far, in order:
                         \* "running", "ok" (the warm-up call returned) or
                         \* "warm_up" (the warm-up call raised)
    threads              \* per thread: pc, entry, self, run, ret, locked
                         \* (the with blocks entered, and "load" when the call
                         \* ran _load_engines), held, detected

svars == <<instance, lock, initialized, singleton_instance, objects, runs, threads>>

VARIABLES
    \* --- the detectors
    det                  \* the last detection request: what was asked, what the
                         \* engine received and replied, what the caller got

dvars == <<det>>

VARIABLES
    \* --- the CSV redaction
    csv                  \* one analyze_csv call: the table read, what the engine
                         \* flags, the arguments, the analysis and the
                         \* anonymized table

cvars == <<csv>>

VARIABLES
    \* --- repeated analyses of one table
    smp                  \* two analyze_dataframe runs on one table: the table,
                         \* sample_size, numpy's permutation for every seed,
                         \* and the result of each run

VARIABLES
    \* --- read_csv
    rd                   \* one read_csv call: the encoding asked for, what
                         \* each call of pd.read_csv does, the attempts made
                         \* and the outcome

VARIABLES
    \* --- maskers/image_masker.py
    img                  \* a call of create_masked_image, directly or from the command line

VARIABLES
    \* --- maskers/pdf_masker.py
    pdf                  \* a call of create_masked_pdf: the text and the story built

VARIABLES
    \* --- the entity filter on its way to the engine
    flt                  \* a request with an entity filter, by HTTP or the command line

VARIABLES
    \* --- the pipeline of one document: api.py, main.py
    job                  \* one request for a document, by HTTP or the command line

VARIABLES
    \* --- api.py: the download folder
    up                   \* the uploads answered so far and the download folder they share

\* The variables of the other parts, which an action of one part leaves alone.
xvars == <<smp, rd, img, pdf, flt, job, up>>
notSmp == <<svars, dvars, cvars, rd, img, pdf, flt, job, up>>
notRd == <<svars, dvars, cvars, smp, img, pdf, flt, job, up>>
notImg == <<svars, dvars, cvars, smp, rd, pdf, flt, job, up>>
notPdf == <<svars, dvars, cvars, smp, rd, img, flt, job, up>>
notFlt == <<svars, dvars, cvars, smp, rd, img, pdf, job, up>>
notJob == <<svars, dvars, cvars, smp, rd, img, pdf, flt, up>>
notUp == <<svars, dvars, cvars, smp, rd, img, pdf, flt, job>>

vars == <<svars, dvars, cvars, xvars>>

\* ------------------------------------------------------- singleton_analyzers
\* An object fresh from __new__: __init__ has not assigned its attributes.
NoEngines == [analyzer_engine |-> Unset, anonymizer_engine |-> Unset]
NoHeld == [analyzer |-> None, anonymizer |-> None]

\* The runs of _load_engines whose warm-up call raised, and those whose
\* warm-up call returned. The engine constructors of lines 46-47 are taken to
\* return: the failure of a run is the failure of its warm-up call.
WarmUpFailed == {k \in DOMAIN runs : runs[k] = "warm_up"}
Warmed == {k \in DOMAIN runs : runs[k] = "ok"}

IdleThread ==
    [pc |-> "idle", entry |-> "get", self |-> None, run |-> 0, ret |-> None,
     locked |-> {}, held |-> NoHeld, detected |-> "none"]

SInit ==
    /\ instance = None
    /\ lock = None
    /\ initialized = FALSE
    /\ singleton_instance = None
    /\ objects = <<>>
    /\ runs = <<>>
    /\ threads = [t \in Threads |-> IdleThread]

Goto(t, label) == threads' = [threads EXCEPT ![t].pc = label]

\* A thread starts a call of get_analyzer_singleton() or of AnalyzerSingleton().
Call(t) ==
    /\ threads[t].pc \in {"idle", "returned", "raised", "ready"}
    /\ \E e \in {"get", "new"} :
          threads' = [threads EXCEPT ![t] =
              [IdleThread EXCEPT !.pc = IF e = "new" THEN "new_check" ELSE "get_check",
                                 !.entry = e]]
    /\ UNCHANGED <<instance, lock, initialized, singleton_instance, objects,
                   runs>>
    /\ UNCHANGED <<dvars, cvars, xvars>>

\* get_analyzer_singleton, line 89: if _singleton_instance is None
GetCheck(t) ==
    /\ threads[t].pc = "get_check"
    /\ Goto(t, IF singleton_instance = None THEN "new_check" ELSE "get_return")
    /\ UNCHANGED <<instance, lock, initialized, singleton_instance, objects,
                   runs>>
    /\ UNCHANGED <<dvars, cvars, xvars>>

\* __new__, line 24: if cls._instance is None (the unsynchronized check)
NewCheck(t) ==
    /\ threads[t].pc = "new_check"
    /\ Goto(t, IF instance = None THEN "new_lock" ELSE "new_return")
    /\ UNCHANGED <<instance, lock, initialized, singleton_instance, objects,
                   runs>>
    /\ UNCHANGED <<dvars, cvars, xvars>>

\* __new__, line 25: with cls._lock (blocks while another thread holds it)
NewLock(t) ==
    /\ threads[t].pc = "new_lock"
    /\ lock = None
    /\ lock' = t
    /\ threads' = [threads EXCEPT ![t].pc = "new_recheck",
                                  ![t].locked = @ \cup {"new"}]
    /\ UNCHANGED <<instance, initialized, singleton_instance, objects, runs>>
    /\ UNCHANGED <<dvars, cvars, xvars>>

\* Whether __new__, holding the lock, creates the object (line 26).
NewMustCreateNoRecheck == TRUE
NewMustCreate == instance = None

\* __new__, lines 26-27 and the end of the with block: the synchronized
\* re-check, the creation of the one object, the release of the lock.
NewRecheck(t) ==
    /\ threads[t].pc = "new_recheck"
    /\ IF NewMustCreate
          THEN /\ objects' = Append(objects, NoEngines)
               /\ instance' = Len(objects) + 1
          ELSE UNCHANGED <<objects, instance>>
    /\ lock' = None
    /\ Goto(t, "new_return")
    /\ UNCHANGED <<initialized, singleton_instance, runs>>
    /\ UNCHANGED <<dvars, cvars, xvars>>

\* __new__, line 28: return cls._instance; type.__call__ then runs __init__
\* on the object returned.
NewReturn(t) ==
    /\ threads[t].pc = "new_return"
    /\ threads' = [threads EXCEPT ![t].pc = "init_check", ![t].self = instance]
    /\ UNCHANGED <<instance, lock, initialized, singleton_instance, objects,
                   runs>>
    /\ UNCHANGED <<dvars, cvars, xvars>>

\* __init__ returns: AnalyzerSingleton() evaluates to the object, which a
\* direct caller receives and get_analyzer_singleton goes on to store.
InitDone(t) ==
    IF threads[t].entry = "new"
       THEN threads' = [threads EXCEPT ![t].pc = "returned", ![t].run = 0,
                                       ![t].ret = threads[t].self]
       ELSE threads' = [threads EXCEPT ![t].pc = "get_assign", ![t].run = 0]

\* InitCheck without the unsynchronized check of line 32: the lock is taken on
\* every call.
InitCheckAlwaysLock(t) ==
    /\ threads[t].pc = "init_check"
    /\ Goto(t, "init_lock")
    /\ UNCHANGED <<instance, lock, initialized, singleton_instance, objects,
                   runs>>
    /\ UNCHANGED <<dvars, cvars, xvars>>

\* __init__, line 32: if not AnalyzerSingleton._initialized (unsynchronized)
InitCheck(t) ==
    /\ threads[t].pc = "init_check"
    /\ IF ~initialized THEN Goto(t, "init_lock") ELSE InitDone(t)
    /\ UNCHANGED <<instance, lock, initialized, singleton_instance, objects,
                   runs>>
    /\ UNCHANGED <<dvars, cvars, xvars>>

\* __init__, line 33: with AnalyzerSingleton._lock
InitLock(t) ==
    /\ threads[t].pc = "init_lock"
    /\ lock = None
    /\ lock' = t
    /\ threads' = [threads EXCEPT ![t].pc = "init_recheck",
                                  ![t].locked = @ \cup {"init"}]
    /\ UNCHANGED <<instance, initialized, singleton_instance, objects, runs>>
    /\ UNCHANGED <<dvars, cvars, xvars>>

\* InitRecheck with the flag set before the engines are loaded (line 39 moved
\* above line 36).
InitRecheckFlagFirst(t) ==
    /\ threads[t].pc = "init_recheck"
    /\ IF ~initialized
          THEN /\ objects' = [objects EXCEPT ![threads[t].self] =
                     [analyzer_engine |-> None, anonymizer_engine |-> None]]
               /\ runs' = Append(runs, "running")
               /\ initialized' = TRUE
               /\ threads' = [threads EXCEPT ![t].pc = "load_analyzer",
                                             ![t].run = Len(runs) + 1,
                                             ![t].locked = @ \cup {"load"}]
          ELSE /\ UNCHANGED <<objects, runs, initialized>>
               /\ Goto(t, "init_unlock")
    /\ UNCHANGED <<instance, lock, singleton_instance>>
    /\ UNCHANGED <<dvars, cvars, xvars>>

\* __init__, lines 34-37: the synchronized re-check; when still not
\* initialized, both engine attributes are set to None and a run of
\* _load_engines starts.
InitRecheck(t) ==
    /\ threads[t].pc = "init_recheck"
    /\ IF ~initialized
          THEN /\ objects' = [objects EXCEPT ![threads[t].self] =
                     [analyzer_engine |-> None, anonymizer_engine |-> None]]
               /\ runs' = Append(runs, "running")
               /\ threads' = [threads EXCEPT ![t].pc = "load_analyzer",
                                             ![t].run = Len(runs) + 1,
                                             ![t].locked = @ \cup {"load"}]
          ELSE /\ UNCHANGED <<objects, runs>>
               /\ Goto(t, "init_unlock")
    /\ UNCHANGED <<instance, lock, initialized, singleton_instance>>
    /\ UNCHANGED <<dvars, cvars, xvars>>

\* _load_engines, line 46: self._analyzer_engine = AnalyzerEngine()
LoadAnalyzer(t) ==
    /\ threads[t].pc = "load_analyzer"
    /\ objects' = [objects EXCEPT ![threads[t].self].analyzer_engine = threads[t].run]
    /\ Goto(t, "load_anonymizer")
    /\ UNCHANGED <<instance, lock, initialized, singleton_instance, runs>>
    /\ UNCHANGED <<dvars, cvars, xvars>>

\* _load_engines, line 47: self._anonymizer_engine = AnonymizerEngine()
LoadAnonymizer(t) ==
    /\ threads[t].pc = "load_anonymizer"
    /\ objects' = [objects EXCEPT ![threads[t].self].anonymizer_engine = threads[t].run]
    /\ Goto(t, "warm_up")
    /\ UNCHANGED <<instance, lock, initialized, singleton_instance, runs>>
    /\ UNCHANGED <<dvars, cvars, xvars>>

\* _load_engines, lines 50-59: the warm-up call of the analyzer engine returns,
\* or it raises and the except clause re-raises.
WarmUp(t) ==
    /\ threads[t].pc = "warm_up"
    /\ \/ /\ runs' = [runs EXCEPT ![threads[t].run] = "ok"]
          /\ Goto(t, "set_initialized")
       \/ /\ Cardinality(WarmUpFailed) < MaxFailures
          /\ runs' = [runs EXCEPT ![threads[t].run] = "warm_up"]
          /\ Goto(t, "init_raise")
    /\ UNCHANGED <<instance, lock, initialized, singleton_instance, objects>>
    /\ UNCHANGED <<dvars, cvars, xvars>>

\* __init__, line 39: AnalyzerSingleton._initialized = True
SetInitialized(t) ==
    /\ threads[t].pc = "set_initialized"
    /\ initialized' = TRUE
    /\ Goto(t, "init_unlock")
    /\ UNCHANGED <<instance, lock, singleton_instance, objects, runs>>
    /\ UNCHANGED <<dvars, cvars, xvars>>

\* __init__, the end of the with block (line 33) on the normal path
InitUnlock(t) ==
    /\ threads[t].pc = "init_unlock"
    /\ lock' = None
    /\ InitDone(t)
    /\ UNCHANGED <<instance, initialized, singleton_instance, objects, runs>>
    /\ UNCHANGED <<dvars, cvars, xvars>>

\* InitRaise with the lock left held when the exception leaves __init__.
InitRaiseKeepLock(t) ==
    /\ threads[t].pc = "init_raise"
    /\ threads' = [threads EXCEPT ![t].pc = "raised", ![t].run = 0]
    /\ UNCHANGED <<instance, lock, initialized, singleton_instance, objects, runs>>
    /\ UNCHANGED <<dvars, cvars, xvars>>

\* __init__, the end of the with block when _load_engines raised: the lock is
\* released and the exception leaves __init__, AnalyzerSingleton() and
\* get_analyzer_singleton() (line 90 assigns nothing).
InitRaise(t) ==
    /\ threads[t].pc = "init_raise"
    /\ lock' = None
    /\ threads' = [threads EXCEPT ![t].pc = "raised", ![t].run = 0]
    /\ UNCHANGED <<instance, initialized, singleton_instance, objects, runs>>
    /\ UNCHANGED <<dvars, cvars, xvars>>

\* get_analyzer_singleton, line 90: _singleton_instance = AnalyzerSingleton()
GetAssign(t) ==
    /\ threads[t].pc = "get_assign"
    /\ singleton_instance' = threads[t].self
    /\ Goto(t, "get_return")
    /\ UNCHANGED <<instance, lock, initialized, objects, runs>>
    /\ UNCHANGED <<dvars, cvars, xvars>>

\* get_analyzer_singleton, line 91: return _singleton_instance
GetReturn(t) ==
    /\ threads[t].pc = "get_return"
    /\ threads' = [threads EXCEPT
          ![t].pc = "returned",
          ![t].ret = singleton_instance]
    /\ UNCHANGED <<instance, lock, initialized, singleton_instance, objects,
                   runs>>
    /\ UNCHANGED <<dvars, cvars, xvars>>

\* The properties analyzer and anonymizer (lines 61-73) applied to the value v
\* of the attribute: an attribute never assigned raises AttributeError, None
\* raises RuntimeError("... not initialized"), anything else is handed out.
Accessor(v) ==
    IF v = Unset THEN [kind |-> "AttributeError", engine |-> None]
    ELSE IF v = None THEN [kind |-> "RuntimeError", engine |-> None]
    ELSE [kind |-> "engine", engine |-> v]

\* get_supported_entities (lines 75-77): self.analyzer.get_supported_entities(...)
GetSupportedEntities(obj) ==
    LET a == Accessor(obj.analyzer_engine)
    IN  IF a.kind = "engine" THEN [kind |-> "entities", engine |-> a.engine] ELSE a

\* OptimizedPDFAnalyzer.__init__ / OptimizedImageAnalyzer.__init__, lines
\* 20-21, once get_analyzer_singleton() of line 19 has returned: the analyzer
\* object captures both engines through the accessors.
AnalyzerCtor(t) ==
    /\ threads[t].pc = "returned"
    /\ threads[t].entry = "get"
    /\ LET obj == objects[threads[t].ret]
           a == Accessor(obj.analyzer_engine)
           b == Accessor(obj.anonymizer_engine)
       IN  IF a.kind = "engine" /\ b.kind = "engine"
              THEN threads' = [threads EXCEPT
                       ![t].pc = "ready",
                       ![t].held = [analyzer |-> a.engine, anonymizer |-> b.engine]]
              ELSE Goto(t, "raised")
    /\ UNCHANGED <<instance, lock, initialized, singleton_instance, objects,
                   runs>>
    /\ UNCHANGED <<dvars, cvars, xvars>>

\* analyze_text of an analyzer built on the shared engines
\* (optimized_pdf_analyzer.py 60-78, optimized_image_analyzer.py 81-102): no
\* readiness check; the captured engine is called (or, for a blank text in the
\* image analyzer, [] is returned), so the call ends with a list or with the
\* engine's exception.
SharedDetect(t) ==
    /\ threads[t].pc = "ready"
    /\ threads[t].detected = "none"
    /\ \E outcome \in {"list", "engine_error"} :
          threads' = [threads EXCEPT ![t].detected = outcome]
    /\ UNCHANGED <<instance, lock, initialized, singleton_instance, objects,
                   runs>>
    /\ UNCHANGED <<dvars, cvars, xvars>>

SNext ==
    \/ \E t \in Threads :
          \/ Call(t) \/ GetCheck(t) \/ NewCheck(t) \/ NewLock(t) \/ NewRecheck(t)
          \/ NewReturn(t) \/ InitCheck(t) \/ InitLock(t) \/ InitRecheck(t)
          \/ LoadAnalyzer(t) \/ LoadAnonymizer(t) \/ WarmUp(t)
          \/ SetInitialized(t) \/ InitUnlock(t) \/ InitRaise(t)
          \/ GetAssign(t) \/ GetReturn(t) \/ AnalyzerCtor(t) \/ SharedDetect(t)


\* ------------------------------------------------------------ the detectors
\* Texts are sequences of characters; " " stands for any whitespace.
Chars == {"a", " "}
Texts == UNION {[1..n -> Chars] : n \in 0..MaxLen}
\* Confidence scores and thresholds, on a scale of their own.
Scores == {1, 2}
Thresholds == {1, 2}
Variants == {"pdf", "image", "csv"}
\* The entities argument: None (all entity types) or a list of names.
NoEntities == [is_none |-> TRUE, names |-> <<>>]
EntityFilters == {NoEntities, [is_none |-> FALSE, names |-> <<"PERSON">>]}

RECURSIVE LStrip(_)
LStrip(text) ==
    IF text # <<>> /\ Head(text) = " " THEN LStrip(Tail(text)) ELSE text

RECURSIVE RStrip(_)
RStrip(text) ==
    IF text # <<>> /\ text[Len(text)] = " "
       THEN RStrip(SubSeq(text, 1, Len(text) - 1))
       ELSE text

\* str.strip()
Strip(text) == RStrip(LStrip(text))

Min(a, b) == IF a <= b THEN a ELSE b

\* text[start:end] for start, end >= 0: Python clamps both to len(text), and
\* the slice is empty when start >= end.
Slice(text, start, end) ==
    SubSeq(text, Min(start, Len(text)) + 1, Min(end, Len(text)))

\* The spans the detection engine may report for a text: those inside the
\* text, and two its interface rules out (an empty one, one running past the
\* end of the text).
Spans(text) ==
    {p \in (0..Len(text)) \X (0..Len(text)) : p[1] < p[2]}
        \cup {<<0, 0>>, <<0, Len(text) + 1>>}

\* The RecognizerResult objects AnalyzerEngine.analyze may return for a text.
RecognizerResults(text) ==
    {[entity_type |-> "PERSON", start |-> p[1], end |-> p[2], score |-> sc] :
        p \in Spans(text), sc \in Scores}

\* What a call of AnalyzerEngine.analyze may do: raise, or return a list.
EngineReplies(text) ==
    {[kind |-> "raise", results |-> <<>>]} \cup
    {[kind |-> "results", results |-> l] :
        l \in UNION {[1..n -> RecognizerResults(text)] : n \in 0..MaxResults}}

\* The guard in front of the engine call: optimized_image_analyzer.py 81
\* (not text or not text.strip()), csv_analyzer.py 58 (not text or
\* pd.isna(text) or str(text).strip() == ''; a str is never NaN);
\* optimized_pdf_analyzer.py has none.
ShortCircuits(variant, text) ==
    /\ variant \in {"image", "csv"}
    /\ text = <<>> \/ Strip(text) = <<>>

\* The score_threshold argument of the engine call (score_threshold=threshold).
ScoreThresholdLowest(threshold) == 1
ScoreThreshold(threshold) == threshold

\* The conversion loop prepending each finding instead of appending it.
FindingsPrepended(text, results) ==
    [i \in 1..Len(results) |->
        [entity_type |-> results[Len(results) + 1 - i].entity_type,
         text |-> Slice(text, results[Len(results) + 1 - i].start,
                        results[Len(results) + 1 - i].end),
         start |-> results[Len(results) + 1 - i].start,
         end |-> results[Len(results) + 1 - i].end,
         score |-> results[Len(results) + 1 - i].score]]

\* The loop that converts the engine's results to dictionaries.
Findings(text, results) ==
    [i \in 1..Len(results) |->
        [entity_type |-> results[i].entity_type,
         text |-> Slice(text, results[i].start, results[i].end),
         start |-> results[i].start,
         end |-> results[i].end,
         score |-> results[i].score]]

NotCalled == [text |-> <<>>, entities |-> NoEntities, score_threshold |-> 0]

\* analyze_text that calls the engine a second time when the first call raised.
AnalyzeTextRetry(variant, text, threshold, entities, reply) ==
    IF ShortCircuits(variant, text)
       THEN [kind |-> "list", error |-> "none", findings |-> <<>>,
             engine_calls |-> 0, engine |-> "not called",
             passed |-> NotCalled, results |-> <<>>]
       ELSE LET passed == [text |-> text, entities |-> entities,
                           score_threshold |-> ScoreThreshold(threshold)]
            IN  IF reply.kind = "raise"
                   THEN [kind |-> "raise", error |-> "engine exception",
                         findings |-> <<>>, engine_calls |-> 2,
                         engine |-> "raise", passed |-> passed,
                         results |-> <<>>]
                   ELSE [kind |-> "list", error |-> "none",
                         findings |-> Findings(text, reply.results),
                         engine_calls |-> 1, engine |-> "results",
                         passed |-> passed, results |-> reply.results]

\* analyze_text of one analyzer, given what the engine does when called: the
\* outcome ("list" with the findings, or "raise" with the error: the engine's
\* exception leaves analyze_text as it is, there is no try block), the number
\* of engine calls made, what the engine did, the arguments it received and
\* the results it returned.
AnalyzeText(variant, text, threshold, entities, reply) ==
    IF ShortCircuits(variant, text)
       THEN [kind |-> "list", error |-> "none", findings |-> <<>>,
             engine_calls |-> 0, engine |-> "not called",
             passed |-> NotCalled, results |-> <<>>]
       ELSE LET passed == [text |-> text, entities |-> entities,
                           score_threshold |-> ScoreThreshold(threshold)]
            IN  IF reply.kind = "raise"
                   THEN [kind |-> "raise", error |-> "engine exception",
                         findings |-> <<>>, engine_calls |-> 1,
                         engine |-> "raise", passed |-> passed,
                         results |-> <<>>]
                   ELSE [kind |-> "list", error |-> "none",
                         findings |-> Findings(text, reply.results),
                         engine_calls |-> 1, engine |-> "results",
                         passed |-> passed, results |-> reply.results]

\* No HTTP response: the request is a direct call of analyze_text, or the
\* endpoint has not answered yet.
NoResponse ==
    [status |-> 0, pii_found |-> FALSE, pii_count |-> 0,
     entities_filter |-> "none", detail |-> "none"]

\* The entities form field of the endpoint, as entities.split(",") sees it:
\* absent (None), "PERSON", " person," and the empty string.
FormEntities ==
    {NoEntities,
     [is_none |-> FALSE, names |-> <<"PERSON">>],
     [is_none |-> FALSE, names |-> <<" person", "">>],
     [is_none |-> FALSE, names |-> <<"">>]}

\* e.strip().upper() on the names of FormEntities and of RawNames.
StripUpper(e) ==
    CASE e = " person" -> "PERSON"
      [] e = "person" -> "PERSON"
      [] e = " " -> ""
      [] OTHER -> e

RECURSIVE StripUpperAll(_)
StripUpperAll(names) ==
    IF names = <<>> THEN <<>>
    ELSE IF StripUpper(Head(names)) = "" THEN StripUpperAll(Tail(names))
    ELSE <<StripUpper(Head(names))>> \o StripUpperAll(Tail(names))

\* The endpoint's parsing of the form field: None for an absent or empty
\* field, else the names stripped and upper-cased, the empty ones dropped.
ParseEntities(form) ==
    IF form.is_none \/ form.names = <<"">> THEN NoEntities
    ELSE [is_none |-> FALSE, names |-> StripUpperAll(form.names)]

RECURSIVE Join(_)
Join(names) ==
    IF names = <<>> THEN ""
    ELSE IF Len(names) = 1 THEN names[1]
    ELSE names[1] \o "," \o Join(Tail(names))

\* ",".join(entity_list) if entity_list else "all"
EntitiesFilter(entity_list) ==
    IF entity_list.is_none \/ entity_list.names = <<>> THEN "all"
    ELSE Join(entity_list.names)

\* analyze_text has not run.
NoOut ==
    [kind |-> "none", error |-> "none", findings |-> <<>>, engine_calls |-> 0,
     engine |-> "not called", passed |-> NotCalled, results |-> <<>>]

\* No detection request is under way.
NoDet ==
    [op |-> "none", variant |-> "none", text |-> <<>>, threshold |-> 0,
     entities |-> NoEntities, out |-> NoOut, response |-> NoResponse]

\* The detection requests: a call analyze_text(text, threshold=threshold,
\* entities=entities) of a CSVAnalyzer, an OptimizedPDFAnalyzer or an
\* OptimizedImageAnalyzer, or a POST to /api/analyze/text, which uses the
\* shared OptimizedPDFAnalyzer.
Requests ==
    {[NoDet EXCEPT !.op = o, !.variant = v, !.text = text,
                   !.threshold = threshold, !.entities = entities] :
        o \in {"analyze_text"}, v \in Variants, text \in Texts,
        threshold \in Thresholds, entities \in EntityFilters}
    \cup
    {[NoDet EXCEPT !.op = "api", !.variant = "pdf", !.text = text,
                   !.threshold = threshold, !.entities = entities] :
        text \in Texts, threshold \in Thresholds, entities \in FormEntities}

DInit == det \in Requests

\* The direct call of analyze_text runs.
Detect ==
    /\ det.op = "analyze_text"
    /\ det.out.kind = "none"
    /\ \E reply \in EngineReplies(det.text) :
          det' = [det EXCEPT !.out =
                     AnalyzeText(det.variant, det.text, det.threshold,
                                 det.entities, reply)]
    /\ UNCHANGED <<svars, cvars, xvars>>

\* The except clause of the endpoint: HTTPException(status_code=500,
\* detail=str(e)).
ApiOnException(out) ==
    [status |-> 500, pii_found |-> FALSE, pii_count |-> 0,
     entities_filter |-> "none", detail |-> out.error]

\* POST /api/analyze/text: the endpoint parses the entities field, calls
\* analyze_text of the shared OptimizedPDFAnalyzer and answers with the
\* findings, or with status 500 when the call raised.
ApiAnalyzeText ==
    /\ det.op = "api"
    /\ det.out.kind = "none"
    /\ \E reply \in EngineReplies(det.text) :
          LET entity_list == ParseEntities(det.entities)
              out == AnalyzeText("pdf", det.text, det.threshold, entity_list,
                                 reply)
          IN  det' = [det EXCEPT
                         !.out = out,
                         !.response =
                            IF out.kind = "raise"
                               THEN ApiOnException(out)
                               ELSE [status |-> 200,
                                     pii_found |-> Len(out.findings) > 0,
                                     pii_count |-> Len(out.findings),
                                     entities_filter |->
                                        EntitiesFilter(entity_list),
                                     detail |-> "none"]]
    /\ UNCHANGED <<svars, cvars, xvars>>

DNext == Detect \/ ApiAnalyzeText

\* ------------------------------------------------------------- csv_analyzer
\* A cell holds a missing value (NaN) or a text.
NaN == [isna |-> TRUE, text |-> <<>>]
Str(text) == [isna |-> FALSE, text |-> text]
CellTexts == {<<"a">>, <<"a", "a">>}
CellValues == {NaN} \cup {Str(text) : text \in CellTexts}

\* The header of the CSV files read.
Columns == <<"name", "email">>

Range(seq) == {seq[i] : i \in DOMAIN seq}

\* The RangeIndex 0..n-1 pd.read_csv gives a table of n rows.
RangeIndex(n) == [i \in 1..n |-> i - 1]

\* The values of a column in the files read: every row has a name, the email
\* may be missing.
ColumnValues(column) ==
    IF column = "name" THEN CellValues \ {NaN} ELSE CellValues

\* The DataFrames read_csv returns: the row labels in order, the column names
\* in order (pd.read_csv keeps them distinct), and the cell of every label
\* and column.
Tables ==
    UNION {{[index |-> RangeIndex(n), columns |-> Columns, cells |-> c] :
               c \in {t \in [(0..(n - 1)) \X Range(Columns) -> CellValues] :
                         \A p \in DOMAIN t : t[p] \in ColumnValues(p[2])}} :
           n \in 0..MaxRows}

\* df.at[idx, column]
At(df, idx, column) == df.cells[<<idx, column>>]

\* df.at[idx, column] = value: sets the cell when the label and the column
\* exist; otherwise pandas enlarges the table by the missing row or column,
\* whose other cells are NaN.
AtSet(df, idx, column, value) ==
    LET index == IF idx \in Range(df.index) THEN df.index
                 ELSE Append(df.index, idx)
        columns == IF column \in Range(df.columns) THEN df.columns
                   ELSE Append(df.columns, column)
    IN  [index |-> index, columns |-> columns,
         cells |-> [p \in Range(index) \X Range(columns) |->
                      IF p = <<idx, column>> THEN value
                      ELSE IF p \in DOMAIN df.cells THEN df.cells[p]
                      ELSE NaN]]

\* The texts the engine of the CSVAnalyzer flags, for the threshold and the
\* entities of the call: one of the two cell texts, so that a table may hold
\* cells with findings, cells without and missing values.
Flagged == {<<"a", "a">>}

\* The engine of the CSVAnalyzer, as a function of the text: one result for
\* every character when the text is one it flags (a PERSON first, an
\* EMAIL_ADDRESS after it), none otherwise; a flagged cell of two characters
\* has two findings.
CsvEngine(flagged, text) ==
    [kind |-> "results",
     results |-> IF text \in flagged
                    THEN [i \in 1..Len(text) |->
                            [entity_type |-> IF i = 1 THEN "PERSON"
                                             ELSE "EMAIL_ADDRESS",
                             start |-> i - 1, end |-> i, score |-> 2]]
                    ELSE <<>>]

\* self.analyze_text(str(value), threshold=threshold, entities=entities)
CsvFindings(flagged, text) ==
    AnalyzeText("csv", text, 1, NoEntities, CsvEngine(flagged, text)).findings

\* AnonymizerEngine.anonymize with its default operator: every finding's span
\* is replaced by <ENTITY_TYPE>, from the last finding to the first.
RECURSIVE Anonymize(_, _)
Anonymize(text, findings) ==
    IF findings = <<>> THEN text
    ELSE LET f == findings[Len(findings)]
         IN  Anonymize(SubSeq(text, 1, f.start) \o <<"<" \o f.entity_type \o ">">>
                          \o SubSeq(text, f.end + 1, Len(text)),
                       SubSeq(findings, 1, Len(findings) - 1))

\* Visits without its last cell.
VisitsButLast(df) ==
    [k \in 1..(Len(df.columns) * Len(df.index) - 1) |->
        [column |-> df.columns[((k - 1) \div Len(df.index)) + 1],
         idx |-> df.index[((k - 1) % Len(df.index)) + 1]]]

\* The cells anonymize_dataframe visits, in order: for column in
\* df_anonymized.columns: for idx in df_anonymized.index.
Visits(df) ==
    [k \in 1..(Len(df.columns) * Len(df.index)) |->
        [column |-> df.columns[((k - 1) \div Len(df.index)) + 1],
         idx |-> df.index[((k - 1) % Len(df.index)) + 1]]]

\* The row label anonymize_dataframe writes the anonymized text to.
WrittenLabelNext(idx) == idx + 1
WrittenLabel(idx) == idx

\* One pass of the inner loop body of anonymize_dataframe.
AnonymizeCell(df, flagged, idx, column) ==
    LET value == At(df, idx, column)
    IN  IF value.isna THEN df
        ELSE LET pii_findings == CsvFindings(flagged, value.text)
             IN  IF pii_findings = <<>> THEN df
                 ELSE AtSet(df, WrittenLabel(idx), column,
                            Str(Anonymize(value.text, pii_findings)))

RECURSIVE AnonymizeFrom(_, _, _, _)
AnonymizeFrom(df, flagged, visits, k) ==
    IF k > Len(visits) THEN df
    ELSE AnonymizeFrom(AnonymizeCell(df, flagged, visits[k].idx, visits[k].column),
                       flagged, visits, k + 1)

\* anonymize_dataframe(df, threshold, entities): works on a copy and visits
\* every cell of every row; it has no sample_size parameter.
AnonymizeDataframe(df, flagged) == AnonymizeFrom(df, flagged, Visits(df), 1)

\* df_anonymized bound to the DataFrame object of the argument.
DfCopySame(df_ref) == df_ref
\* df_anonymized = df.copy(): a DataFrame object of its own.
DfCopy(df_ref) == "df_anonymized"

\* The DataFrame objects when anonymize_dataframe(df) returns: the loop
\* writes to the object df_anonymized is bound to.
DataFrames(df, flagged) ==
    LET df_anonymized == DfCopy("df")
    IN  [ref \in {"df", df_anonymized} |->
            IF ref = df_anonymized THEN AnonymizeDataframe(df, flagged)
            ELSE df]

\* The analyze_text calls of anonymize_dataframe from the k-th visit on: the
\* cell and the text str(value) of every value read that is not missing.
RECURSIVE DetectorCalls(_, _, _, _)
DetectorCalls(df, flagged, visits, k) ==
    IF k > Len(visits) THEN <<>>
    ELSE LET value == At(df, visits[k].idx, visits[k].column)
         IN  (IF value.isna THEN <<>>
              ELSE <<[idx |-> visits[k].idx, column |-> visits[k].column,
                      text |-> value.text]>>)
             \o DetectorCalls(AnonymizeCell(df, flagged, visits[k].idx,
                                            visits[k].column),
                              flagged, visits, k + 1)

\* The sample_size arguments: None, or a number of rows.
SampleSizes == {None, 1, 2}

\* if sample_size and len(df) > sample_size
IsSampled(df, sample_size) == sample_size # None /\ Len(df.index) > sample_size

\* The row labels df.sample(n=sample_size, random_state=42) may pick: the
\* seed fixes the pick, which rows it falls on is numpy's matter, so any
\* sample_size of the labels.
Samples(df, sample_size) ==
    IF IsSampled(df, sample_size)
       THEN {rows \in SUBSET Range(df.index) : Cardinality(rows) = sample_size}
       ELSE {Range(df.index)}

\* analyze_dataframe(df, sample_size, threshold, entities), given the rows
\* scanned: per column the row_index of every scanned cell with findings.
AnalyzeDataframe(df, flagged, sample_size, rows) ==
    [total_columns |-> Len(df.columns),
     total_rows |-> Len(df.index),
     analyzed_rows |-> Cardinality(rows),
     is_sampled |-> IsSampled(df, sample_size),
     scanned |-> rows,
     all_findings |->
        {p \in rows \X Range(df.columns) :
            /\ ~At(df, p[1], p[2]).isna
            /\ CsvFindings(flagged, At(df, p[1], p[2]).text) # <<>>}]

\* The row labels of df_to_analyze, in its row order: those of df when the
\* table is not sampled; those df.sample picked, in the generator's order,
\* when it is.
ScanOrders(df, sample_size, rows) ==
    IF IsSampled(df, sample_size)
       THEN {order \in [1..Cardinality(rows) -> rows] : Range(order) = rows}
       ELSE {df.index}

\* The row_index reported for the idx-th scanned value using the position.
RowIndexPosition(order, idx) == idx - 1
\* df_to_analyze.index[idx]: the label of the idx-th scanned row.
RowIndex(order, idx) == order[idx]

\* column_pii after the loop over enumerate(df_to_analyze[column]), from the
\* idx-th value on: one entry for every value that is not missing and has
\* findings.
RECURSIVE ColumnPii(_, _, _, _, _)
ColumnPii(df, flagged, order, column, idx) ==
    IF idx > Len(order) THEN <<>>
    ELSE LET value == At(df, order[idx], column)
             rest == ColumnPii(df, flagged, order, column, idx + 1)
         IN  IF value.isna THEN rest
             ELSE LET pii_findings == CsvFindings(flagged, value.text)
                  IN  IF pii_findings = <<>> THEN rest
                      ELSE <<[row_index |-> RowIndex(order, idx),
                              value |-> value.text,
                              pii_findings |-> pii_findings]>> \o rest

\* The findings of all the items of column_pii, item after item.
RECURSIVE FindingsOfItems(_)
FindingsOfItems(column_pii) ==
    IF column_pii = <<>> THEN <<>>
    ELSE column_pii[1].pii_findings \o FindingsOfItems(Tail(column_pii))

\* pii_types: for every entity type found in the column, the number of
\* findings of that type.
PiiTypes(column_pii) ==
    LET found == FindingsOfItems(column_pii)
    IN  [entity_type \in {found[i].entity_type : i \in DOMAIN found} |->
            Cardinality({i \in DOMAIN found : found[i].entity_type = entity_type})]

\* column_results[column]
ColumnResult(column_pii) ==
    IF column_pii # <<>>
       THEN [has_pii |-> TRUE, pii_count |-> Len(column_pii),
             pii_types |-> PiiTypes(column_pii), all_findings |-> column_pii]
       ELSE [has_pii |-> FALSE, pii_count |-> 0,
             pii_types |-> <<>>, all_findings |-> <<>>]

\* column_results of analyze_dataframe, the rows scanned in the given order.
ColumnResults(df, flagged, order) ==
    [column \in Range(df.columns) |->
        ColumnResult(ColumnPii(df, flagged, order, column, 1))]

\* sum(info["pii_count"] for info in column_results.values()), over the
\* columns from the k-th on.
RECURSIVE TotalPiiInstances(_, _, _)
TotalPiiInstances(columns, column_results, k) ==
    IF k > Len(columns) THEN 0
    ELSE column_results[columns[k]].pii_count
            + TotalPiiInstances(columns, column_results, k + 1)

\* results["summary"] of analyze_csv.
Summary(columns, column_results) ==
    [columns_with_pii |-> Cardinality({column \in Range(columns) :
                                          column_results[column].has_pii}),
     total_pii_instances |-> TotalPiiInstances(columns, column_results, 1)]

NoTable == [index |-> <<>>, columns |-> <<>>, cells |-> <<>>]
NoAnalysis == AnalyzeDataframe(NoTable, {}, None, {})

\* df_anonymized.to_csv(output_path, index=False): the header, then the rows
\* in order, each with its cells in column order.
ToCsv(df) ==
    [header |-> df.columns,
     rows |-> [i \in 1..Len(df.index) |->
                 [j \in 1..Len(df.columns) |->
                     At(df, df.index[i], df.columns[j])]]]

NoCsv == [pc |-> "none", df |-> NoTable, flagged |-> {}, sample_size |-> None,
          anonymize |-> FALSE, analysis |-> NoAnalysis,
          column_results |-> ColumnResults(NoTable, {}, <<>>),
          summary |-> Summary(<<>>, <<>>), anonymized |-> NoTable,
          df_after |-> NoTable, calls |-> <<>>,
          file |-> ToCsv(NoTable)]

\* The analyze_csv calls: the table read_csv returned, the texts the engine
\* flags, sample_size and anonymize (an output_path is given). df is the
\* table read, df_after the content of that DataFrame object from then on,
\* calls the texts anonymize_dataframe has sent to analyze_text.
CInit ==
    csv \in {[NoCsv EXCEPT !.pc = "called", !.df = df, !.df_after = df,
                           !.flagged = flagged,
                           !.sample_size = sample_size, !.anonymize = anonymize] :
                df \in Tables, flagged \in {Flagged},
                sample_size \in SampleSizes, anonymize \in BOOLEAN}

\* analyze_csv: the analysis of the (sampled) table, then, when anonymize is
\* set, the anonymization of the whole table and its writing.
AnalyzeCsv ==
    /\ csv.pc = "called"
    /\ \E rows \in Samples(csv.df, csv.sample_size) :
       \E order \in ScanOrders(csv.df, csv.sample_size, rows) :
          LET analysis == AnalyzeDataframe(csv.df, csv.flagged, csv.sample_size, rows)
              column_results == ColumnResults(csv.df, csv.flagged, order)
              frames == DataFrames(csv.df, csv.flagged)
              df_anonymized == frames[DfCopy("df")]
          IN  csv' = [csv EXCEPT
                  !.pc = "returned",
                  !.analysis = analysis,
                  !.column_results = column_results,
                  !.summary = Summary(csv.df.columns, column_results),
                  !.anonymized = IF csv.anonymize THEN df_anonymized ELSE NoTable,
                  !.df_after = IF csv.anonymize THEN frames["df"] ELSE csv.df,
                  !.calls = IF csv.anonymize
                               THEN DetectorCalls(csv.df, csv.flagged,
                                                  Visits(csv.df), 1)
                               ELSE <<>>,
                  !.file = IF csv.anonymize THEN ToCsv(df_anonymized)
                           ELSE ToCsv(NoTable)]
    /\ UNCHANGED <<svars, dvars, xvars>>

CNext == AnalyzeCsv

\* -------------------------------------------------- csv_analyzer: sampling
\* random_state=42
RandomState == 42
\* The seeds a generator without random_state would draw from the system.
Entropy == {1, 2}
Seeds == {RandomState} \cup Entropy

\* The orders in which a generator may shuffle the row labels.
Orders(index) ==
    {p \in [1..Len(index) -> Range(index)] : Range(p) = Range(index)}

\* The seed of the generator df.sample builds.
SeedFromEntropy(entropy) == entropy
SeedUsed(entropy) == RandomState

\* df.sample(n=sample_size, random_state=...): without replacement, the first
\* sample_size labels of the generator's permutation of the rows.
Sample(permutation, sample_size) == {permutation[i] : i \in 1..sample_size}

\* The tables analysed repeatedly: every cell holds a text the engine flags,
\* so that the findings show the rows scanned.
SampleTables ==
    {[index |-> RangeIndex(n), columns |-> Columns,
      cells |-> [p \in (0..(n - 1)) \X Range(Columns) |-> Str(<<"a", "a">>)]] :
        n \in 0..MaxRows}

NoSmp == [pc |-> "none", df |-> NoTable, sample_size |-> None,
          permutation |-> <<>>, runs |-> <<>>]

\* A table, a sample_size, and the permutation numpy computes for each seed.
MInit ==
    smp \in UNION {{[NoSmp EXCEPT !.pc = "first", !.df = df,
                                  !.sample_size = sample_size,
                                  !.permutation = permutation] :
                       sample_size \in SampleSizes,
                       permutation \in [Seeds -> Orders(df.index)]} :
                   df \in SampleTables}

\* One run of analyze_dataframe(df, sample_size) in a process whose system
\* entropy is any of Entropy.
AnalyzeDataframeRun ==
    /\ smp.pc \in {"first", "second"}
    /\ \E entropy \in Entropy :
          LET rows == IF IsSampled(smp.df, smp.sample_size)
                         THEN Sample(smp.permutation[SeedUsed(entropy)],
                                     smp.sample_size)
                         ELSE Range(smp.df.index)
          IN  smp' = [smp EXCEPT
                  !.pc = IF smp.pc = "first" THEN "second" ELSE "done",
                  !.runs = Append(@,
                      [entropy |-> entropy,
                       analysis |-> AnalyzeDataframe(smp.df, Flagged,
                                                     smp.sample_size, rows)])]
    /\ UNCHANGED notSmp

MNext == AnalyzeDataframeRun

\* -------------------------------------------------- csv_analyzer: read_csv
Encodings == {"utf-8", "latin-1", "cp1252"}

\* What a call of pd.read_csv does: return a DataFrame, raise
\* UnicodeDecodeError, or raise another exception (no such file, a parser
\* error).
ReadReplies == {"df", "UnicodeDecodeError", "other exception"}

\* read_csv that tries the fallback encoding after any failure of the first
\* read.
ReadCsvRetryAny(encoding, replies) ==
    IF replies[1] = "df"
       THEN [kind |-> "df", attempts |-> <<encoding>>, read_by |-> 1,
             error |-> "none"]
    ELSE IF replies[2] = "df"
       THEN [kind |-> "df", attempts |-> <<encoding, "latin-1">>,
             read_by |-> 2, error |-> "none"]
    ELSE [kind |-> "raise", attempts |-> <<encoding, "latin-1">>,
          read_by |-> 0, error |-> "Exception: Error reading CSV file"]

\* read_csv(csv_path, encoding), given what the successive calls of
\* pd.read_csv do: the encodings tried in order, and the DataFrame of the
\* read that returned or the Exception("Error reading CSV file: ...") raised.
ReadCsv(encoding, replies) ==
    IF replies[1] = "df"
       THEN [kind |-> "df", attempts |-> <<encoding>>, read_by |-> 1,
             error |-> "none"]
    ELSE IF replies[1] = "UnicodeDecodeError"
       THEN IF replies[2] = "df"
               THEN [kind |-> "df", attempts |-> <<encoding, "latin-1">>,
                     read_by |-> 2, error |-> "none"]
               ELSE [kind |-> "raise", attempts |-> <<encoding, "latin-1">>,
                     read_by |-> 0,
                     error |-> "Exception: Error reading CSV file"]
    ELSE [kind |-> "raise", attempts |-> <<encoding>>, read_by |-> 0,
          error |-> "Exception: Error reading CSV file"]

NoRd == [pc |-> "none", encoding |-> "utf-8", replies |-> <<>>,
         out |-> [kind |-> "none", attempts |-> <<>>, read_by |-> 0,
                  error |-> "none"]]

RInit ==
    rd \in {[NoRd EXCEPT !.pc = "called", !.encoding = encoding,
                         !.replies = replies] :
               encoding \in Encodings,
               replies \in [1..MaxReads -> ReadReplies]}

ReadCsvCall ==
    /\ rd.pc = "called"
    /\ rd' = [rd EXCEPT !.pc = "returned",
                        !.out = ReadCsv(rd.encoding, rd.replies)]
    /\ UNCHANGED notRd

RNext == ReadCsvCall

\* ------------------------------------------------------ maskers/image_masker
\* The letters of a text, with the lowercase form str.lower() gives each.
LowerChar(c) ==
    CASE c = "J" -> "j"
      [] c = "O" -> "o"
      [] c = "D" -> "d"
      [] c = "X" -> "x"
      [] OTHER -> c

\* str.lower()
Lower(text) == [i \in 1..Len(text) |-> LowerChar(text[i])]

NotWhitespace(c) == c # " "

\* ''.join(text.split()): every whitespace character is removed
JoinSplit(text) == SelectSeq(text, NotWhitespace)

\* a in b, for strings
In(a, b) == \E i \in 0..(Len(b) - Len(a)) : SubSeq(b, i + 1, i + Len(a)) = a

\* The boxes OCR reports for a token: one inside the image, one at its corner,
\* one running past its right and bottom edges.
BoxInside == [left |-> 3, top |-> 3, width |-> 0, height |-> 0]
BoxCorner == [left |-> 0, top |-> 0, width |-> 1, height |-> 0]
BoxEdge == [left |-> 5, top |-> 4, width |-> 2, height |-> 1]

OcrEntry(text, box) ==
    [text |-> text, left |-> box.left, top |-> box.top,
     width |-> box.width, height |-> box.height]

\* The entries of pytesseract's image_to_data: a token's text as OCR reports
\* it (empty for the structural entries, possibly padded with whitespace) and
\* its box.
OcrEntries ==
    { OcrEntry(<<>>, BoxInside),
      OcrEntry(<<"J", "O">>, BoxCorner),
      OcrEntry(<<" ", "D", " ">>, BoxEdge),
      OcrEntry(<<"X">>, BoxInside) }

\* get_text_boxes (lines 15-28): what OCR reports for the image, entry i of
\* the parallel lists of the dictionary being element i of the sequence.
OcrDatas == UNION {[1..n -> OcrEntries] : n \in 0..MaxWords}

\* The word test of find_text_positions with one direction only (line 52
\* without its second disjunct).
WordMatchesOneWay(word, normalized_target) ==
    /\ word # <<>>
    /\ In(Lower(word), normalized_target)

\* The word test of find_text_positions without the check of line 49 that the
\* word is not empty.
WordMatchesEmptyToo(word, normalized_target) ==
    \/ In(Lower(word), normalized_target)
    \/ In(normalized_target, Lower(word))

\* find_text_positions, lines 49-52, for the stripped text of an entry: the
\* entry is skipped when the text is empty, and matches when either of the
\* lowercased word and the normalized target contains the other.
WordMatches(word, normalized_target) ==
    /\ word # <<>>
    /\ \/ In(Lower(word), normalized_target)
       \/ In(normalized_target, Lower(word))

RECURSIVE PositionsFrom(_, _, _)
PositionsFrom(ocr_data, normalized_target, i) ==
    IF i > Len(ocr_data) THEN <<>>
    ELSE LET word == Strip(ocr_data[i].text)
             rest == PositionsFrom(ocr_data, normalized_target, i + 1)
         IN IF WordMatches(word, normalized_target)
            THEN <<[x |-> ocr_data[i].left, y |-> ocr_data[i].top,
                    width |-> ocr_data[i].width, height |-> ocr_data[i].height]>> \o rest
            ELSE rest

\* find_text_positions (lines 30-57)
FindTextPositions(ocr_data, text_to_mask) ==
    PositionsFrom(ocr_data, Lower(JoinSplit(text_to_mask)), 1)

\* The value of finding['text'] for the findings handed to the masker.
Targets == { <<"J", "o", " ", "D">>, <<"o">>, <<" ">> }

\* The pii_findings argument: dictionaries of which the masker reads 'text'.
PiiFindings == UNION {[1..n -> [text : Targets]] : n \in 0..MaxFindings}

\* ImageDraw.rectangle([x0, y0, x1, y1], fill): every pixel of the image with
\* x0 <= x <= x1 and y0 <= y <= y1 takes the fill colour (both corners are
\* inside the rectangle; what lies outside the image is not drawn).
InRectangle(p, xy) ==
    /\ xy[1] <= p[1] /\ p[1] <= xy[3]
    /\ xy[2] <= p[2] /\ p[2] <= xy[4]

\* A rectangle drawn by inverting the pixels it covers instead of filling them.
DrawRectangleInverting(image, xy, fill) ==
    [image EXCEPT !.pixels =
        [p \in DOMAIN @ |-> IF InRectangle(p, xy)
                            THEN (IF @[p] = fill THEN "white" ELSE fill)
                            ELSE @[p]]]

DrawRectangle(image, xy, fill) ==
    [image EXCEPT !.pixels =
        [p \in DOMAIN @ |-> IF InRectangle(p, xy) THEN fill ELSE @[p]]]

\* create_masked_image, line 92
padding == 2

\* The rectangle of lines 86-96 with a padding of one pixel more.
MaskRectangleWide(pos) ==
    << pos.x - (padding + 1), pos.y - (padding + 1),
       pos.x + pos.width + (padding + 1), pos.y + pos.height + (padding + 1) >>

\* create_masked_image, lines 86-96: the corners handed to draw.rectangle
MaskRectangle(pos) ==
    << pos.x - padding, pos.y - padding,
       pos.x + pos.width + padding, pos.y + pos.height + padding >>

\* create_masked_image, lines 85-96: the loop over the positions of a finding
RECURSIVE DrawPositions(_, _, _, _)
DrawPositions(image, positions, i, mask_color) ==
    IF i > Len(positions) THEN image
    ELSE DrawPositions(DrawRectangle(image, MaskRectangle(positions[i]), mask_color),
                       positions, i + 1, mask_color)

\* create_masked_image, lines 78-96: the loop over the findings
RECURSIVE DrawFindings(_, _, _, _, _)
DrawFindings(image, ocr_data, pii_findings, i, mask_color) ==
    IF i > Len(pii_findings) THEN image
    ELSE DrawFindings(
             DrawPositions(image, FindTextPositions(ocr_data, pii_findings[i].text),
                           1, mask_color),
             ocr_data, pii_findings, i + 1, mask_color)

\* create_masked_image, lines 78-82: what find_text_positions returns for each
\* finding, in the order of the findings.
Resolved(ocr_data, pii_findings) ==
    [i \in 1..Len(pii_findings) |-> FindTextPositions(ocr_data, pii_findings[i].text)]

\* The image create_masked_image hands to image.save (lines 71-96): the image
\* opened, with a rectangle drawn for every position of every finding.
Masked(image, ocr_data, pii_findings, mask_color) ==
    DrawFindings(image, ocr_data, pii_findings, 1, mask_color)

\* Image files. A file is identified with the image its decoder yields: the
\* codec is taken to store the pixels it is given.
Colors == {"white", "black", "red"}
Pixels == (0..(ImageWidth - 1)) \X (0..(ImageHeight - 1))
NoFile == [width |-> 0, height |-> 0, pixels |-> [p \in {} |-> "white"]]
Blank == [width |-> ImageWidth, height |-> ImageHeight,
          pixels |-> [p \in Pixels |-> "white"]]
Printed == [width |-> ImageWidth, height |-> ImageHeight,
            pixels |-> [p \in Pixels |-> IF (p[1] + p[2]) % 2 = 0 THEN "black" ELSE "white"]]
Images == {Blank, Printed}

Paths == {"scan.png", "scan_masked.png", "out.png"}

\* create_masked_image drawing on a new white canvas of the size of the image
\* instead of on the image opened.
CreateMaskedImageOnCanvas(files, ocr_data, image_path, pii_findings, output_path, mask_color) ==
    [files EXCEPT ![output_path] =
        Masked([files[image_path] EXCEPT !.pixels = [p \in DOMAIN @ |-> "white"]],
               ocr_data, pii_findings, mask_color)]

\* create_masked_image (lines 59-99) on a file system: Image.open(image_path),
\* the rectangles, image.save(output_path), which creates or replaces the file
\* at output_path.
CreateMaskedImage(files, ocr_data, image_path, pii_findings, output_path, mask_color) ==
    [files EXCEPT ![output_path] =
        Masked(files[image_path], ocr_data, pii_findings, mask_color)]

\* main.py, lines 188-191: f"{base_name}_masked{ext}"
MaskedName(file_path) ==
    CASE file_path = "scan.png" -> "scan_masked.png"
      [] OTHER -> file_path \o "_masked"

\* The -o option left out: output_file is None, which line 188 tests with
\* "not output_file", as it would the empty string.
NoOutput == ""

NoImg ==
    [pc |-> "none", op |-> "none", files |-> [p \in Paths |-> NoFile],
     ocr_data |-> <<>>, image_path |-> "", output |-> NoOutput,
     pii_findings |-> <<>>, mask_color |-> "black", image |-> NoFile,
     positions |-> <<>>, written |-> NoOutput]

\* A call about to be made: of create_masked_image by a caller that names a
\* new file for the output (as api.py does, lines 316-323, with the default
\* colour) or of the command line's analyze_file with --anonymize, with or
\* without the -o option, which may name any path.
IInit ==
    img \in
        { [NoImg EXCEPT !.pc = "call", !.op = c.op,
                        !.files = [p \in Paths |-> IF p = "scan.png" THEN image ELSE NoFile],
                        !.image_path = "scan.png", !.image = image,
                        !.ocr_data = ocr_data, !.pii_findings = pii_findings,
                        !.output = c.output, !.mask_color = c.mask_color] :
            image \in Images, ocr_data \in OcrDatas, pii_findings \in PiiFindings,
            c \in ([op : {"create_masked_image"}, output : {"out.png"},
                    mask_color : {"black", "red"}]
                   \cup [op : {"analyze_file"}, output : {NoOutput, "scan.png"},
                         mask_color : {"black"}]) }

\* A call of create_masked_image(image_path, pii_findings, output_path,
\* mask_color) returns.
CreateMaskedImageCall ==
    /\ img.pc = "call"
    /\ img.op = "create_masked_image"
    /\ img' = [img EXCEPT !.pc = "done",
                          !.files = CreateMaskedImage(img.files, img.ocr_data, img.image_path,
                                                      img.pii_findings, img.output,
                                                      img.mask_color),
                          !.positions = Resolved(img.ocr_data, img.pii_findings),
                          !.written = img.output]
    /\ UNCHANGED notImg

\* analyze_file of the command line for an image with --anonymize (main.py,
\* lines 186-205): the output name defaults to <base>_masked<ext>, and the
\* masker is called only when the analysis found something.
AnalyzeFileImage ==
    /\ img.pc = "call"
    /\ img.op = "analyze_file"
    /\ LET output_file == IF img.output = NoOutput
                          THEN MaskedName(img.image_path) ELSE img.output
       IN IF img.pii_findings # <<>>
          THEN img' = [img EXCEPT !.pc = "done",
                                  !.files = CreateMaskedImage(img.files, img.ocr_data,
                                                              img.image_path, img.pii_findings,
                                                              output_file, "black"),
                                  !.positions = Resolved(img.ocr_data, img.pii_findings),
                                  !.written = output_file]
          ELSE img' = [img EXCEPT !.pc = "done"]
    /\ UNCHANGED notImg

INext ==
    \/ CreateMaskedImageCall
    \/ AnalyzeFileImage

\* -------------------------------------------------------- maskers/pdf_masker
\* The whitespace characters of a text: the space and the line break.
IsSpace(c) == c \in {" ", "\n"}

\* not text.strip(): the text is empty or all whitespace
IsBlank(text) == \A i \in 1..Len(text) : IsSpace(text[i])

\* str.split(sep): the pieces between the occurrences of sep, found from the
\* left and not overlapping; a text without sep is one piece.
RECURSIVE Split(_, _)
Split(text, sep) ==
    LET found == { i \in 1..(Len(text) - Len(sep) + 1) :
                     SubSeq(text, i, i + Len(sep) - 1) = sep }
    IN IF found = {} THEN <<text>>
       ELSE LET i == CHOOSE k \in found : \A j \in found : k <= j
            IN <<SubSeq(text, 1, i - 1)>>
                   \o Split(SubSeq(text, i + Len(sep), Len(text)), sep)

\* str.split(): the maximal runs of characters that are not whitespace
RECURSIVE SplitWhitespace(_)
SplitWhitespace(text) ==
    IF IsBlank(text) THEN <<>>
    ELSE LET s == CHOOSE k \in 1..Len(text) :
                     /\ ~IsSpace(text[k])
                     /\ \A j \in 1..(k - 1) : IsSpace(text[j])
             e == CHOOSE k \in s..Len(text) :
                     /\ \A j \in s..k : ~IsSpace(text[j])
                     /\ k = Len(text) \/ IsSpace(text[k + 1])
         IN <<SubSeq(text, s, e)>> \o SplitWhitespace(SubSeq(text, e + 1, Len(text)))

\* sep.join(pieces)
RECURSIVE JoinWith(_, _)
JoinWith(pieces, sep) ==
    IF pieces = <<>> THEN <<>>
    ELSE IF Len(pieces) = 1 THEN pieces[1]
    ELSE pieces[1] \o sep \o JoinWith(Tail(pieces), sep)

\* str.replace(old, new) for a one-character old
RECURSIVE Replace(_, _, _)
Replace(text, old, new) ==
    IF text = <<>> THEN <<>>
    ELSE (IF Head(text) = old THEN new ELSE <<Head(text)>>)
             \o Replace(Tail(text), old, new)

\* escape_html_entities (lines 20-33)
EscapeHtmlEntities(text) ==
    Replace(Replace(text, "<", <<"&", "l", "t", ";">>), ">", <<"&", "g", "t", ";">>)

\* create_masked_pdf, line 63, splitting at every line break instead.
ParagraphsAtEveryBreak(text) == Split(text, <<"\n">>)

\* create_masked_pdf, line 63: anonymized_text.split('\n\n')
Paragraphs(text) == Split(text, <<"\n", "\n">>)

\* create_masked_pdf, lines 68-69: the lines of a paragraph that are not
\* blank, each with its words joined by single spaces.
RECURSIVE CleanedLinesOf(_)
CleanedLinesOf(lines) ==
    IF lines = <<>> THEN <<>>
    ELSE IF IsBlank(Head(lines)) THEN CleanedLinesOf(Tail(lines))
    ELSE <<JoinWith(SplitWhitespace(Head(lines)), <<" ">>)>> \o CleanedLinesOf(Tail(lines))

CleanedLines(para) == CleanedLinesOf(Split(para, <<"\n">>))

\* The line-break tag of line 70.
BR == <<"<", "b", "r", "/", ">">>

\* create_masked_pdf, lines 65-74: for every paragraph that is not blank, a
\* Paragraph of its cleaned lines joined by the line-break tag, then a Spacer.
RECURSIVE StoryOf(_)
StoryOf(paragraphs) ==
    IF paragraphs = <<>> THEN <<>>
    ELSE IF IsBlank(Head(paragraphs)) THEN StoryOf(Tail(paragraphs))
    ELSE << [kind |-> "Paragraph", text |-> JoinWith(CleanedLines(Head(paragraphs)), BR)],
            [kind |-> "Spacer", text |-> <<>>] >>
             \o StoryOf(Tail(paragraphs))

\* create_masked_pdf (lines 35-77): the story handed to doc.build
CreateMaskedPdf(anonymized_text) ==
    StoryOf(Paragraphs(EscapeHtmlEntities(anonymized_text)))

\* What reportlab's Paragraph shows for its markup: the line-break tag breaks
\* the line, an entity reference shows the character it names, any other
\* character shows as it is.
StartsWith(text, prefix) ==
    /\ Len(text) >= Len(prefix)
    /\ SubSeq(text, 1, Len(prefix)) = prefix

RECURSIVE ParagraphText(_)
ParagraphText(markup) ==
    IF markup = <<>> THEN <<>>
    ELSE IF StartsWith(markup, BR)
         THEN <<"\n">> \o ParagraphText(SubSeq(markup, 6, Len(markup)))
    ELSE IF StartsWith(markup, <<"&", "l", "t", ";">>)
         THEN <<"<">> \o ParagraphText(SubSeq(markup, 5, Len(markup)))
    ELSE IF StartsWith(markup, <<"&", "g", "t", ";">>)
         THEN <<">">> \o ParagraphText(SubSeq(markup, 5, Len(markup)))
    ELSE <<Head(markup)>> \o ParagraphText(Tail(markup))

\* The pieces a text is made of: a letter, a space, a line break, a blank
\* line, a placeholder in angle brackets as the anonymizer writes them, and
\* the characters "&lt;" as they stand in a text about markup.
PdfTokens ==
    { <<"a">>, <<" ">>, <<"\n">>, <<"\n", "\n">>, <<"<", "a", ">">>,
      <<"&", "l", "t", ";">> }

RECURSIVE Concat(_)
Concat(pieces) ==
    IF pieces = <<>> THEN <<>> ELSE Head(pieces) \o Concat(Tail(pieces))

\* The anonymized texts handed to create_masked_pdf.
PdfTexts == { Concat(pieces) : pieces \in UNION {[1..n -> PdfTokens] : n \in 0..MaxTokens} }

NoPdf == [pc |-> "none", anonymized_text |-> <<>>, story |-> <<>>]

PInit == pdf \in { [NoPdf EXCEPT !.pc = "call", !.anonymized_text = text] : text \in PdfTexts }

\* A call of create_masked_pdf(original_pdf_path, anonymized_text, output_path)
\* returns, doc.build having been given the story.
CreateMaskedPdfCall ==
    /\ pdf.pc = "call"
    /\ pdf' = [pdf EXCEPT !.pc = "done", !.story = CreateMaskedPdf(pdf.anonymized_text)]
    /\ UNCHANGED notPdf

PNext == CreateMaskedPdfCall

\* ------------------------------------------------- the entity filter's path
\* The names of a requested filter, as typed.
RawNames == {"PERSON", "person", " person", " ", ""}

\* The filters a request may carry: none, or a list of names. By HTTP the list
\* is entities.split(",") of the form field (an empty field counts as none);
\* on the command line it is the list argparse builds for -e/--entities
\* (nargs='+'), or None without the option.
RequestedFilters ==
    {NoEntities} \cup
    { [is_none |-> FALSE, names |-> names] :
        names \in UNION {[1..n -> RawNames] : n \in 1..MaxNames} }

NoFlt ==
    [pc |-> "none", path |-> "none", requested |-> NoEntities,
     engine |-> "not called", passed |-> NoEntities]

FInit ==
    flt \in { [NoFlt EXCEPT !.pc = "call", !.path = path, !.requested = requested] :
                path \in {"http", "cli"}, requested \in RequestedFilters }

\* POST /api/analyze/text (api.py, lines 166-176; the file endpoints parse the
\* field in the same way, lines 297-308): the field is parsed and the list
\* goes through analyze_text to the engine.
HttpRequest ==
    /\ flt.pc = "call"
    /\ flt.path = "http"
    /\ \E reply \in EngineReplies(<<"a">>), threshold \in Thresholds :
          LET out == AnalyzeText("pdf", <<"a">>, threshold,
                                 ParseEntities(flt.requested), reply)
          IN flt' = [flt EXCEPT !.pc = "done", !.engine = out.engine,
                                !.passed = out.passed.entities]
    /\ UNCHANGED notFlt

\* python main.py data.csv -e ... (main.py, lines 311-333 and 216-223):
\* args.entities goes as it is to analyze_csv, which hands it to analyze_text
\* for every cell (csv_analyzer.py, lines 110 and 171), and so to the engine.
CommandLine ==
    /\ flt.pc = "call"
    /\ flt.path = "cli"
    /\ \E reply \in EngineReplies(<<"a">>), threshold \in Thresholds :
          LET out == AnalyzeText("csv", <<"a">>, threshold, flt.requested, reply)
          IN flt' = [flt EXCEPT !.pc = "done", !.engine = out.engine,
                                !.passed = out.passed.entities]
    /\ UNCHANGED notFlt

FNext ==
    \/ HttpRequest
    \/ CommandLine

\* ------------------------------------------- the pipeline of one document
\* The documents: a PDF, an image, a CSV file.
Kinds == {"pdf", "image", "csv"}
Extension(kind) ==
    CASE kind = "pdf" -> ".pdf" [] kind = "image" -> ".png" [] OTHER -> ".csv"

\* A file name, as os.path.splitext sees it.
FileName(base, kind) == [base |-> base, ext |-> Extension(kind)]

\* f"{file_base}_masked{file_ext}"
MaskedFilename(filename) == filename.base \o "_masked" \o filename.ext

\* os.path.join(DOWNLOAD_FOLDER, masked_filename)
DownloadPath(filename) == "downloaded/" \o MaskedFilename(filename)

\* The default output of the command line: f"{base_name}_masked.pdf",
\* f"{base_name}_masked{ext}", f"{base_name}_masked.csv".
DefaultOutput(filename, kind) == filename.base \o "_masked" \o Extension(kind)

\* No file at the path.
Absent == [doc |-> "none", redacted |-> 0]

\* The artifact the masker writes for a document: the document with its
\* findings redacted.
Artifact(doc, pii_findings) == [doc |-> doc, redacted |-> Len(pii_findings)]

\* open(path, "wb") and the write: the file is created or replaced.
WriteFile(files, path, content) ==
    [q \in DOMAIN files \cup {path} |-> IF q = path THEN content ELSE files[q]]

\* The content at a path.
ReadFile(files, path) == IF path \in DOMAIN files THEN files[path] ELSE Absent

\* A call of a library or of an engine; caught when the statement is in a try
\* block whose handler returns instead of raising.
Op(name) == [name |-> name, caught |-> FALSE]
OpCaught(name) == [name |-> name, caught |-> TRUE]

\* The calls that write the artifact.
PersistCalls == {"doc.build", "image.save", "df_anonymized.to_csv"}

\* What may go wrong with a document: nothing, or one of the calls before the
\* artifact is written raises whenever it is made.
Faults ==
    {"none", "pdfplumber.open", "page.extract_text", "Image.open",
     "pytesseract.image_to_string", "pytesseract.image_to_data",
     "analyzer.analyze", "anonymizer.anonymize", "Paragraph",
     "draw.rectangle", "pd.read_csv", "PDFAnalyzer.analyze_pdf",
     "ImageAnalyzer.analyze_image"}

\* The calls made until one raises outside a try block that swallows it, each
\* with its outcome.
RECURSIVE ExecutedThrough(_, _)
ExecutedThrough(calls, fault) ==
    IF calls = <<>> THEN <<>>
    ELSE <<[name |-> Head(calls).name, ok |-> Head(calls).name # fault]>>
            \o ExecutedThrough(Tail(calls), fault)

RECURSIVE Executed(_, _)
Executed(calls, fault) ==
    IF calls = <<>> THEN <<>>
    ELSE LET call == Head(calls)
             ok == call.name # fault
         IN  IF ok \/ call.caught
                THEN <<[name |-> call.name, ok |-> ok]>>
                        \o Executed(Tail(calls), fault)
                ELSE <<[name |-> call.name, ok |-> FALSE]>>

\* An exception left the sequence of calls.
Raised(calls, log) == Len(log) < Len(calls) \/ (log # <<>> /\ ~log[Len(log)].ok)

\* The findings analyze_text returns for the document: as many as the engine
\* has results.
FindingsOfDocument(n) == [i \in 1..n |-> i]

\* if anonymize and pii_findings, with the test of the findings left out.
ShouldAnonymizeAlways(anonymize, pii_findings) == anonymize
\* if anonymize and pii_findings
ShouldAnonymize(anonymize, pii_findings) == anonymize /\ pii_findings # <<>>

\* The result dictionary of analyze_pdf and of analyze_image.
AnalyzerResult(anonymize, pii_findings) ==
    [pii_found |-> Len(pii_findings) > 0,
     pii_count |-> Len(pii_findings),
     anonymized_text |-> ShouldAnonymize(anonymize, pii_findings)]

\* OptimizedPDFAnalyzer.analyze_pdf: extract_text_from_pdf, analyze_text,
\* anonymize_text.
AnalyzePdfCalls(anonymize, pii_findings) ==
    <<Op("pdfplumber.open"), Op("page.extract_text"), Op("analyzer.analyze")>>
    \o (IF ShouldAnonymize(anonymize, pii_findings)
           THEN <<Op("anonymizer.anonymize")>> ELSE <<>>)

\* OptimizedImageAnalyzer.analyze_image: get_image_info (which returns an
\* error entry when Image.open raises), extract_text_from_image,
\* analyze_text, anonymize_text.
AnalyzeImageCalls(anonymize, pii_findings) ==
    <<OpCaught("Image.open"), Op("Image.open"),
      Op("pytesseract.image_to_string"), Op("analyzer.analyze")>>
    \o (IF ShouldAnonymize(anonymize, pii_findings)
           THEN <<Op("anonymizer.anonymize")>> ELSE <<>>)

\* PDFMasker.create_masked_pdf: the paragraphs, then the document.
PdfMaskerCalls == <<Op("Paragraph"), Op("doc.build")>>

\* ImageMasker.create_masked_image: the image is opened, get_text_boxes
\* opens it again and runs the OCR for the word boxes, the rectangles of the
\* findings are drawn and the image is saved.
ImageMaskerCalls(pii_findings) ==
    <<Op("Image.open"), Op("Image.open"), Op("pytesseract.image_to_data")>>
    \o [i \in 1..Len(pii_findings) |-> Op("draw.rectangle")]
    \o <<Op("image.save")>>

\* analyze_dataframe and anonymize_dataframe on a table whose cells are one
\* cell for each finding and one cell without: analyze_text on every cell,
\* and in anonymize_dataframe the anonymizer after it on a cell with findings.
RECURSIVE AnonymizeDataframeCalls(_)
AnonymizeDataframeCalls(n) ==
    IF n = 0 THEN <<Op("analyzer.analyze")>>
    ELSE <<Op("analyzer.analyze"), Op("anonymizer.anonymize")>>
            \o AnonymizeDataframeCalls(n - 1)

AnalyzeDataframeCalls(pii_findings) ==
    [i \in 1..(Len(pii_findings) + 1) |-> Op("analyzer.analyze")]

\* CSVAnalyzer.analyze_csv
AnalyzeCsvCalls(anonymize, pii_findings, output_path) ==
    <<Op("pd.read_csv")>> \o AnalyzeDataframeCalls(pii_findings)
    \o (IF anonymize
           THEN AnonymizeDataframeCalls(Len(pii_findings))
                \o (IF output_path # NoOutput
                       THEN <<Op("df_anonymized.to_csv")>> ELSE <<>>)
           ELSE <<>>)

\* What a handler leaves: the calls made, the answer, the files.
Outcome(request, calls, files, path, masked) ==
    LET log == Executed(calls, request.fault)
        raised == Raised(calls, log)
        pii_findings == FindingsOfDocument(request.findings)
        written == \E i \in DOMAIN log : log[i].name \in PersistCalls /\ log[i].ok
        results == AnalyzerResult(request.anonymize, pii_findings)
    IN  [log |-> log,
         response |->
            IF raised
               THEN [status |-> "error", pii_found |-> FALSE, pii_count |-> 0,
                     anonymized_text |-> FALSE, masked_file |-> NoOutput]
               ELSE [status |-> "ok", pii_found |-> results.pii_found,
                     pii_count |-> results.pii_count,
                     anonymized_text |-> results.anonymized_text,
                     masked_file |-> IF masked THEN path ELSE NoOutput],
         files |-> IF written
                      THEN WriteFile(files, path,
                                     Artifact(request.doc, pii_findings))
                      ELSE files]

\* POST /api/analyze/pdf: the upload is saved, analyze_pdf runs, and the
\* masked PDF is built when anonymize is set and pii_found; any exception
\* becomes HTTPException(500).
PostPdf(request, files) ==
    LET pii_findings == FindingsOfDocument(request.findings)
        results == AnalyzerResult(request.anonymize, pii_findings)
        masked == request.anonymize /\ results.pii_found
    IN  Outcome(request,
                <<Op("shutil.copyfileobj")>>
                \o AnalyzePdfCalls(request.anonymize, pii_findings)
                \o (IF masked THEN PdfMaskerCalls ELSE <<>>),
                files, DownloadPath(request.filename), masked)

\* POST /api/analyze/image
PostImage(request, files) ==
    LET pii_findings == FindingsOfDocument(request.findings)
        results == AnalyzerResult(request.anonymize, pii_findings)
        masked == request.anonymize /\ results.pii_found
    IN  Outcome(request,
                <<Op("shutil.copyfileobj")>>
                \o AnalyzeImageCalls(request.anonymize, pii_findings)
                \o (IF masked THEN ImageMaskerCalls(pii_findings) ELSE <<>>),
                files, DownloadPath(request.filename), masked)

\* POST /api/analyze/csv: the output path is fixed before analyze_csv runs;
\* the masked file is reported when anonymize is set and the path exists.
PostCsv(request, files) ==
    LET pii_findings == FindingsOfDocument(request.findings)
        temp_output == IF request.anonymize THEN DownloadPath(request.filename)
                       ELSE NoOutput
    IN  Outcome(request,
                <<Op("shutil.copyfileobj")>>
                \o AnalyzeCsvCalls(request.anonymize, pii_findings, temp_output),
                files, DownloadPath(request.filename), request.anonymize)

\* The handler of the endpoint of the document's kind.
Post(request, files) ==
    CASE request.kind = "pdf" -> PostPdf(request, files)
      [] request.kind = "image" -> PostImage(request, files)
      [] OTHER -> PostCsv(request, files)

\* PIIAnalyzerCLI.analyze_file: the analyzer of the file type, then the
\* masker (for a PDF whenever anonymize is set, for an image when there are
\* findings too; analyze_csv writes its file itself); an exception is
\* printed and None returned.
AnalyzeFile(request, files) ==
    LET pii_findings == FindingsOfDocument(request.findings)
        output_file == IF request.output_file # NoOutput THEN request.output_file
                       ELSE DefaultOutput(request.filename, request.kind)
    IN  CASE request.kind = "pdf" ->
                Outcome(request,
                        <<Op("PDFAnalyzer.analyze_pdf")>>
                        \o (IF request.anonymize THEN PdfMaskerCalls ELSE <<>>),
                        files, output_file, request.anonymize)
          [] request.kind = "image" ->
                Outcome(request,
                        <<Op("ImageAnalyzer.analyze_image")>>
                        \o (IF request.anonymize /\ pii_findings # <<>>
                               THEN ImageMaskerCalls(pii_findings) ELSE <<>>),
                        files, output_file,
                        request.anonymize /\ pii_findings # <<>>)
          [] OTHER ->
                Outcome(request,
                        AnalyzeCsvCalls(request.anonymize, pii_findings,
                                        IF request.anonymize THEN output_file
                                        ELSE request.output_file),
                        files,
                        output_file, request.anonymize)

\* The requests for one document: by HTTP or on the command line (there with
\* or without --output), the kind of the document, anonymize, the number of
\* findings of the detector, and what goes wrong.
DocumentRequests ==
    {[front |-> front, kind |-> kind, filename |-> FileName("report", kind),
      doc |-> "report", anonymize |-> anonymize, findings |-> findings,
      fault |-> fault, output_file |-> output_file] :
        front \in {"http", "cli"}, kind \in Kinds, anonymize \in BOOLEAN,
        findings \in 0..MaxPii, fault \in Faults,
        output_file \in {NoOutput, "out"}}

NoRequest ==
    [front |-> "none", kind |-> "none", filename |-> FileName("", "none"),
     doc |-> "none", anonymize |-> FALSE, findings |-> 0, fault |-> "none",
     output_file |-> NoOutput]
NoAnswer ==
    [status |-> "none", pii_found |-> FALSE, pii_count |-> 0,
     anonymized_text |-> FALSE, masked_file |-> NoOutput]
NoFiles == [q \in {} |-> Absent]
NoJob == [pc |-> "none", request |-> NoRequest, files |-> NoFiles,
          log |-> <<>>, response |-> NoAnswer, after |-> NoFiles]

\* The path the request's artifact goes to.
OutputPath(request) ==
    IF request.front = "http" THEN DownloadPath(request.filename)
    ELSE IF request.output_file # NoOutput THEN request.output_file
    ELSE DefaultOutput(request.filename, request.kind)

\* A request, and the files before it: nothing at the output path, or the
\* artifact an earlier run left there.
JInit ==
    job \in UNION {{[NoJob EXCEPT !.pc = "called", !.request = request,
                                  !.files = files, !.after = files] :
                       files \in {NoFiles,
                                  WriteFile(NoFiles, OutputPath(request),
                                            Artifact("earlier", <<>>))}} :
                   request \in {r \in DocumentRequests :
                                   r.front = "http" => r.output_file = NoOutput}}

Answer(request, outcome) ==
    /\ job.pc = "called"
    /\ job.request = request
    /\ job' = [job EXCEPT !.pc = "returned", !.log = outcome.log,
                          !.response = outcome.response,
                          !.after = outcome.files]
    /\ UNCHANGED notJob

PostAnalyzePdf ==
    \E request \in DocumentRequests :
        /\ request.front = "http" /\ request.kind = "pdf"
        /\ Answer(request, PostPdf(request, job.files))

PostAnalyzeImage ==
    \E request \in DocumentRequests :
        /\ request.front = "http" /\ request.kind = "image"
        /\ Answer(request, PostImage(request, job.files))

PostAnalyzeCsv ==
    \E request \in DocumentRequests :
        /\ request.front = "http" /\ request.kind = "csv"
        /\ Answer(request, PostCsv(request, job.files))

MainAnalyzeFile ==
    \E request \in DocumentRequests :
        /\ request.front = "cli"
        /\ Answer(request, AnalyzeFile(request, job.files))

JNext ==
    \/ PostAnalyzePdf
    \/ PostAnalyzeImage
    \/ PostAnalyzeCsv
    \/ MainAnalyzeFile

\* ------------------------------------------- uploads and the download folder
\* The names under which files are uploaded.
UploadNames == {"report", "scan"}

\* The upload requests: every upload is a document of its own (the k-th
\* upload is document k), of any kind and under any of the names, with or
\* without anonymize; the detector has a finding in it and nothing fails.
Uploads(k) ==
    {[front |-> "http", kind |-> kind, filename |-> FileName(base, kind),
      doc |-> "document " \o ToString(k), anonymize |-> anonymize,
      findings |-> 1, fault |-> "none", output_file |-> NoOutput] :
        kind \in Kinds, base \in UploadNames, anonymize \in BOOLEAN}

NoUp == [files |-> NoFiles, answered |-> <<>>, downloads |-> <<>>]

\* The server has started: the download folder is empty, nothing is answered.
UInit == up = NoUp

\* One POST /api/analyze/{pdf,image,csv} handled from its first statement to
\* its response: the handlers are coroutines without an await, which the
\* event loop runs one after the other.
Upload ==
    /\ Len(up.answered) < MaxUploads
    /\ \E request \in Uploads(Len(up.answered) + 1) :
          LET outcome == Post(request, up.files)
          IN  up' = [up EXCEPT
                  !.files = outcome.files,
                  !.answered = Append(@, [request |-> request,
                                          response |-> outcome.response]),
                  !.downloads = Append(@, Absent)]
    /\ UNCHANGED notUp

\* GET /api/download/{filename} by the client of the k-th upload, with the
\* masked_file of its response: the file of that name in the download folder.
Download ==
    /\ \E k \in DOMAIN up.answered :
          /\ up.answered[k].response.masked_file # NoOutput
          /\ up.downloads[k] = Absent
          /\ up' = [up EXCEPT
                 !.downloads[k] =
                     ReadFile(up.files, up.answered[k].response.masked_file)]
    /\ UNCHANGED notUp

UNext ==
    \/ Upload
    \/ Download

\* ------------------------------------------------------------------ claims
Returned(t) == threads[t].ret # None

\* C1: however the threads' first calls of get_analyzer_singleton() and
\* AnalyzerSingleton() interleave, at most one AnalyzerSingleton object is
\* ever created, and every call that returns, returns that object.
C1_OneInstance ==
    /\ Len(objects) <= 1
    /\ \A t \in Threads : Returned(t) => threads[t].ret = instance
    /\ \A t, u \in Threads :
          Returned(t) /\ Returned(u) => threads[t].ret = threads[u].ret

\* Two threads that both found _instance None and entered __new__'s with
\* block have both returned.
C1_Witness ==
    \E t, u \in Threads :
       /\ t # u
       /\ Returned(t) /\ Returned(u)
       /\ "new" \in threads[t].locked /\ "new" \in threads[u].locked

\* The positions of a thread that is running lines 36-39 of __init__.
Constructing == {"load_analyzer", "load_anonymizer", "warm_up", "set_initialized"}

\* C2: no call returns a handle before the construction has completed: when a
\* thread holds a handle, the flag is set, no thread is still constructing,
\* and both engines of the handle are those of a run whose warm-up returned.
C2_HandleOnlyAfterConstruction ==
    \A t \in Threads :
       Returned(t) =>
          /\ initialized
          /\ \A u \in Threads : threads[u].pc \notin Constructing
          /\ objects[threads[t].ret].analyzer_engine \in Warmed
          /\ objects[threads[t].ret].anonymizer_engine \in Warmed

\* A thread that saw the flag unset, waited for __init__'s lock, found the
\* flag set by the constructing thread and returned without loading.
C2_Witness ==
    \E t \in Threads :
       /\ Returned(t)
       /\ "init" \in threads[t].locked
       /\ "load" \notin threads[t].locked

\* C3: once a warm-up call has raised and the error has left the call, no
\* caller holds a handle from that call, the flag is set only by a run that
\* warmed up, and the accessors of the shared instance do not hand out an
\* engine that the failed run created.
C3_FailedRunLeavesNoEngine ==
    /\ \A t \in Threads : threads[t].pc = "raised" => ~Returned(t)
    /\ initialized => Warmed # {}
    /\ \A k \in WarmUpFailed :
          (instance # None /\ \A t \in Threads : threads[t].run # k) =>
             /\ Accessor(objects[instance].analyzer_engine).engine # k
             /\ Accessor(objects[instance].anonymizer_engine).engine # k

\* C4: an analyze_text call made after a warm-up call has raised ends with a
\* not-ready error, never with a list of findings.
C4_DetectAfterFailureNotReady ==
    \A t \in Threads :
       (/\ threads[t].detected # "none"
        /\ \E k \in WarmUpFailed : k < threads[t].held.analyzer)
          => threads[t].detected = "not_ready"

\* C5: get_supported_entities() on the shared instance raises while the
\* initialization has not completed (here: no run of _load_engines has warmed
\* up and none is under way), and once the flag is set it returns what the
\* engine of the successful run reports.
C5_EntitiesOnlyWhenInitialized ==
    (instance # None /\ \A k \in DOMAIN runs : runs[k] # "running") =>
       LET r == GetSupportedEntities(objects[instance])
       IN  /\ Warmed = {} => r.kind \in {"RuntimeError", "AttributeError"}
           /\ initialized => r.kind = "entities" /\ r.engine \in Warmed

\* The request was a direct call of analyze_text, which has ended.
Detected == det.op = "analyze_text" /\ det.out.kind # "none"

\* C6: analyze_text on an empty or whitespace-only text returns [] without
\* calling the engine, in every detector variant.
C6_BlankTextSkipsEngine ==
    (Detected /\ Strip(det.text) = <<>>) =>
       /\ det.out.kind = "list"
       /\ det.out.findings = <<>>
       /\ det.out.engine_calls = 0

InText(f, text) == 0 <= f.start /\ f.start < f.end /\ f.end <= Len(text)

\* C7 as stated: every finding analyze_text returns lies inside the text and
\* scores at least the threshold asked for, whatever the engine emitted.
C7_FindingsInBoundsWhateverEngine ==
    (Detected /\ det.out.kind = "list") =>
       \A i \in DOMAIN det.out.findings :
          /\ InText(det.out.findings[i], det.text)
          /\ det.out.findings[i].score >= det.threshold

\* The engine kept to its interface in the last call: every result lies
\* inside the text it was given and scores at least the score_threshold it
\* was given.
EngineConformed ==
    \A i \in DOMAIN det.out.results :
       /\ InText(det.out.results[i], det.out.passed.text)
       /\ det.out.results[i].score >= det.out.passed.score_threshold

\* C7, amended: analyze_text validates nothing itself: it hands the engine the
\* text and the threshold unchanged and copies start, end and score of every
\* result, in order; so when the engine's results lie inside the text and
\* score at least the threshold the engine was given, every finding returned
\* lies inside the text and scores at least the threshold asked for.
C7_FindingsConformWhenEngineDoes ==
    (Detected /\ det.out.kind = "list") =>
       /\ Len(det.out.findings) = Len(det.out.results)
       /\ \A i \in DOMAIN det.out.findings :
             /\ det.out.findings[i].start = det.out.results[i].start
             /\ det.out.findings[i].end = det.out.results[i].end
             /\ det.out.findings[i].score = det.out.results[i].score
       /\ EngineConformed =>
             \A i \in DOMAIN det.out.findings :
                /\ InText(det.out.findings[i], det.text)
                /\ det.out.findings[i].score >= det.threshold

\* The engine conformed and analyze_text returned MaxResults findings, one of
\* them scoring exactly the highest threshold, which was the one asked for.
C7_Witness ==
    /\ Detected /\ det.out.kind = "list"
    /\ EngineConformed
    /\ Len(det.out.findings) = MaxResults
    /\ det.threshold = 2
    /\ \E i \in DOMAIN det.out.findings : det.out.findings[i].end = Len(det.text)

Redacted == csv.pc = "returned" /\ csv.anonymize

\* C9: the anonymized table has the row labels of the input, in the same
\* order, and its columns in the same order, whatever the table, sample_size
\* and the texts flagged; so has the file written.
C9_DimensionsPreserved ==
    Redacted =>
       /\ csv.anonymized.index = csv.df.index
       /\ csv.anonymized.columns = csv.df.columns
       /\ DOMAIN csv.anonymized.cells = DOMAIN csv.df.cells
       /\ csv.file.header = csv.df.columns
       /\ Len(csv.file.rows) = Len(csv.df.index)
       /\ \A i \in DOMAIN csv.file.rows :
             Len(csv.file.rows[i]) = Len(csv.df.columns)

\* The cells of the anonymized table that differ from the input's.
Mutated ==
    {p \in DOMAIN csv.df.cells : csv.anonymized.cells[p] # csv.df.cells[p]}

\* A table of MaxRows rows was redacted, and a cell of its last row and last
\* column was rewritten.
C9_Witness ==
    /\ Redacted
    /\ Len(csv.df.index) = MaxRows
    /\ <<MaxRows - 1, Columns[Len(Columns)]>> \in Mutated

WithFindings ==
    {p \in DOMAIN csv.df.cells :
        /\ ~csv.df.cells[p].isna
        /\ CsvFindings(csv.flagged, csv.df.cells[p].text) # <<>>}

C11_SamplingExactAndDeterministic ==
    /\ \A k \in DOMAIN smp.runs :
          LET a == smp.runs[k].analysis
          IN  /\ a.analyzed_rows = Cardinality(a.scanned)
              /\ a.scanned \subseteq Range(smp.df.index)
              /\ a.total_rows = Len(smp.df.index)
              /\ (smp.sample_size > 0 /\ Len(smp.df.index) > smp.sample_size) =>
                    a.is_sampled /\ a.analyzed_rows = smp.sample_size
              /\ (smp.sample_size = None \/ smp.sample_size >= Len(smp.df.index)) =>
                    ~a.is_sampled /\ a.scanned = Range(smp.df.index)
    /\ Len(smp.runs) = 2 => smp.runs[1].analysis = smp.runs[2].analysis

\* Two runs under different entropy sampled 2 of 3 rows.
C11_Witness ==
    /\ smp.pc = "done"
    /\ smp.runs[1].entropy # smp.runs[2].entropy
    /\ Len(smp.df.index) = 3
    /\ smp.runs[2].analysis.analyzed_rows = 2
    /\ smp.permutation[1] # smp.permutation[2]

\* C12: read_csv reads with the encoding asked for; it reads a second time,
\* with latin-1, exactly when the first read raised UnicodeDecodeError; any
\* other failure of the first read, and any failure of the second, ends the
\* call with the file-read Exception, without a further read; a read that
\* returns gives the call its DataFrame.
C12_OneRetryOnDecodeError ==
    rd.pc = "returned" =>
       /\ Len(rd.out.attempts) \in {1, 2}
       /\ rd.out.attempts[1] = rd.encoding
       /\ Len(rd.out.attempts) = 2 <=> rd.replies[1] = "UnicodeDecodeError"
       /\ Len(rd.out.attempts) = 2 => rd.out.attempts[2] = "latin-1"
       /\ IF rd.replies[Len(rd.out.attempts)] = "df"
             THEN rd.out.kind = "df" /\ rd.out.read_by = Len(rd.out.attempts)
             ELSE /\ rd.out.kind = "raise"
                  /\ rd.out.error = "Exception: Error reading CSV file"

\* The first read raised UnicodeDecodeError, the latin-1 read failed too, and
\* a third read would have returned.
C12_Witness ==
    /\ rd.pc = "returned"
    /\ rd.replies[1] = "UnicodeDecodeError"
    /\ rd.replies[2] # "df"
    /\ rd.replies[3] = "df"
    /\ rd.out.kind = "raise"

\* The masker was called and has returned.
MaskerReturned == img.pc = "done" /\ img.written # NoOutput

\* The OCR entries that are words (their trimmed text is not empty) and pass
\* the containment test for a target, as the claim words it.
PassingWords(ocr_data, text_to_mask) ==
    { i \in 1..Len(ocr_data) :
        LET word == Lower(Strip(ocr_data[i].text))
            target == Lower(JoinSplit(text_to_mask))
        IN /\ Len(word) > 0
           /\ \/ \E k \in 1..(Len(target) - Len(word) + 1) :
                     \A j \in 1..Len(word) : target[k + j - 1] = word[j]
              \/ \E k \in 1..(Len(word) - Len(target) + 1) :
                     \A j \in 1..Len(target) : word[k + j - 1] = target[j] }

\* C13: for every finding of a masking call, find_text_positions returns
\* exactly the boxes of the OCR words that pass the bidirectional containment
\* test, one box per passing word, in OCR order, and no other box. An OCR word
\* is an entry whose trimmed text is not empty: the entries with an empty or
\* whitespace-only text give no box.
C13_BoxesOfPassingWords ==
    MaskerReturned =>
        \A f \in 1..Len(img.pii_findings) :
            LET passing == PassingWords(img.ocr_data, img.pii_findings[f].text)
                positions == img.positions[f]
            IN /\ Len(positions) = Cardinality(passing)
               /\ \A i \in passing :
                      LET k == Cardinality({j \in passing : j <= i})
                      IN positions[k] = [x |-> img.ocr_data[i].left,
                                         y |-> img.ocr_data[i].top,
                                         width |-> img.ocr_data[i].width,
                                         height |-> img.ocr_data[i].height]

\* Two words, each a part of the target "Jo D", give two boxes in OCR order,
\* next to an entry without text that gives none.
C13_Witness ==
    /\ MaskerReturned
    /\ \E f \in 1..Len(img.pii_findings) :
           /\ img.pii_findings[f].text = <<"J", "o", " ", "D">>
           /\ Len(img.ocr_data) = 2
           /\ Len(img.positions[f]) = 2
           /\ img.positions[f][1] # img.positions[f][2]

\* The image the masker opened and the image it wrote.
Original == img.image
Output == img.files[img.written]

\* The pixels of the rectangle from (x-2, y-2) to (x+w+2, y+h+2) of a box.
PaddedBox(pos) ==
    { p \in Pixels : /\ pos.x - 2 <= p[1] /\ p[1] <= pos.x + pos.width + 2
                     /\ pos.y - 2 <= p[2] /\ p[2] <= pos.y + pos.height + 2 }

\* The boxes resolved for the findings of a list, and the masked region: the
\* union of their padded rectangles.
BoxesOf(positions) ==
    UNION { {positions[f][k] : k \in 1..Len(positions[f])} : f \in 1..Len(positions) }
MaskedRegion == UNION { PaddedBox(pos) : pos \in BoxesOf(img.positions) }

C15_OriginalNeverMutated ==
    img.pc = "done" => img.files[img.image_path] = Original

Rearranged(list) ==
    { [i \in 1..Len(list) |-> list[q[i]]] :
        q \in { r \in [1..Len(list) -> 1..Len(list)] : Range(r) = 1..Len(list) } }
    \cup { SubSeq(list, 1, i) \o SubSeq(list, i, Len(list)) : i \in 1..Len(list) }

\* The image with the masked region painted once in the mask colour.
RegionDrawnOnce ==
    LET region == MaskedRegion
    IN [p \in Pixels |-> IF p \in region THEN img.mask_color ELSE Original.pixels[p]]

\* C17: with one mask colour the masked pixels do not depend on the order or
\* the multiplicity of the findings: every permutation of the list and every
\* list that repeats one of its elements give the pixels the list gives, and
\* these are the pixels of the union of the boxes drawn once.
C17_OrderAndMultiplicityIndependent ==
    MaskerReturned =>
        /\ \A list \in Rearranged(img.pii_findings) :
               Masked(Original, img.ocr_data, list, img.mask_color).pixels = Output.pixels
        /\ Output.pixels = RegionDrawnOnce

\* Two different findings were masked whose rectangles overlap.
C17_Witness ==
    /\ MaskerReturned
    /\ Len(img.pii_findings) = 2
    /\ img.pii_findings[1] # img.pii_findings[2]
    /\ \E a \in BoxesOf(<<img.positions[1]>>), b \in BoxesOf(<<img.positions[2]>>) :
           /\ a # b
           /\ PaddedBox(a) \cap PaddedBox(b) # {}
    /\ Output.pixels # Original.pixels

\* The blocks of the story: the markup of its Paragraphs, in order.
Blocks ==
    LET paragraphs == SelectSeq(pdf.story, LAMBDA item : item.kind = "Paragraph")
    IN [b \in 1..Len(paragraphs) |-> paragraphs[b].text]

\* The words of a text: the maximal runs of characters that are not
\* whitespace, as pairs of their first and last position.
WordSpans(text) ==
    { sp \in (1..Len(text)) \X (1..Len(text)) :
        /\ sp[1] <= sp[2]
        /\ \A i \in sp[1]..sp[2] : ~IsSpace(text[i])
        /\ sp[1] = 1 \/ IsSpace(text[sp[1] - 1])
        /\ sp[2] = Len(text) \/ IsSpace(text[sp[2] + 1]) }

\* The n-th word of a text, and the whitespace between it and the next.
NthSpan(text, n) ==
    CHOOSE sp \in WordSpans(text) :
        Cardinality({t \in WordSpans(text) : t[1] <= sp[1]}) = n
Gap(text, n) == SubSeq(text, NthSpan(text, n)[2] + 1, NthSpan(text, n + 1)[1] - 1)

\* The places of the story: block b, line l of the block (the lines are
\* parted by the line-break tag), piece k of the line (the pieces are parted
\* by single spaces).
LinesOfBlock(b) == Split(Blocks[b], BR)
PiecesOfLine(b, l) == Split(LinesOfBlock(b)[l], <<" ">>)
Places ==
    { pl \in (1..Len(Blocks)) \X (1..MaxTokens) \X (1..MaxTokens) :
        /\ pl[2] <= Len(LinesOfBlock(pl[1]))
        /\ pl[3] <= Len(PiecesOfLine(pl[1], pl[2])) }
Before(p, q) ==
    \/ p[1] < q[1]
    \/ p[1] = q[1] /\ p[2] < q[2]
    \/ p[1] = q[1] /\ p[2] = q[2] /\ p[3] <= q[3]
NthPlace(n) == CHOOSE pl \in Places : Cardinality({q \in Places : Before(q, pl)}) = n

\* C18: create_masked_pdf emits one block per paragraph that is not blank, in
\* order. The pieces of the blocks, read block by block and line by line, are
\* the words of the anonymized text (escaped) in order, each piece a word, so
\* that every run of whitespace inside a line has become one space and blank
\* lines and blank paragraphs have left nothing; two successive words are in
\* different blocks exactly when a blank-line break (two successive line
\* breaks) lies between them, and in different lines of one block exactly when
\* a line break but no blank-line break lies between them.
C18_BlocksAreTheParagraphs ==
    pdf.pc = "done" =>
        LET text == pdf.anonymized_text
            n == Cardinality(WordSpans(text))
        IN /\ Cardinality(Places) = n
           /\ \A b \in 1..Len(Blocks) :
                  \A l \in 1..Len(LinesOfBlock(b)) :
                      /\ Len(LinesOfBlock(b)) <= MaxTokens
                      /\ Len(PiecesOfLine(b, l)) <= MaxTokens
           /\ \A k \in 1..n :
                  LET pl == NthPlace(k)
                      sp == NthSpan(text, k)
                  IN PiecesOfLine(pl[1], pl[2])[pl[3]]
                         = EscapeHtmlEntities(SubSeq(text, sp[1], sp[2]))
           /\ \A k \in 1..(n - 1) :
                  LET p == NthPlace(k)
                      q == NthPlace(k + 1)
                      gap == Gap(text, k)
                  IN /\ p[1] = q[1] <=> ~In(<<"\n", "\n">>, gap)
                     /\ (p[1] = q[1] /\ p[2] = q[2]) <=> ~In(<<"\n">>, gap)

\* A text of two paragraphs parted by more than a blank line: two blocks, and
\* the line left over between them is dropped.
C18_Witness ==
    /\ pdf.pc = "done"
    /\ Len(Blocks) = 2
    /\ In(<<"\n", "\n", "\n">>, pdf.anonymized_text)
    /\ \A b \in 1..2 : Len(LinesOfBlock(b)) = 1

\* create_masked_pdf, lines 63-69, on the text as it is: the cleaned lines of
\* every paragraph that is not blank.
CleanedText(text) ==
    LET kept == SelectSeq(Paragraphs(text), LAMBDA para : ~IsBlank(para))
    IN [i \in 1..Len(kept) |-> CleanedLines(kept[i])]

\* C19: every markup-significant character of the anonymized text is escaped
\* before the text reaches the paragraph renderer, so nothing of the text is
\* read as markup: what each paragraph shows is the cleaned text of its
\* paragraph, character for character, the only markup being the line breaks
\* the masker inserted between its lines.
C19_NothingOfTheTextIsMarkup ==
    pdf.pc = "done" =>
        LET cleaned == CleanedText(pdf.anonymized_text)
        IN /\ Len(Blocks) = Len(cleaned)
           /\ \A b \in 1..Len(Blocks) :
                  ParagraphText(Blocks[b]) = JoinWith(cleaned[b], <<"\n">>)

\* C20: on every entry path the engine is handed the normalized filter: no
\* filter when none was requested, else names each of which is the trimmed,
\* uppercased form of a requested name and none of which is empty.
C20_FilterNormalizedOnEveryPath ==
    (flt.pc = "done" /\ flt.engine # "not called") =>
        /\ flt.requested.is_none => flt.passed.is_none
        /\ \A i \in 1..Len(flt.passed.names) :
               /\ flt.passed.names[i] # ""
               /\ \E j \in 1..Len(flt.requested.names) :
                      flt.passed.names[i] = StripUpper(flt.requested.names[j])

\* The positions at which a thread waits for the lock.
AtLock == {"new_lock", "init_lock"}

\* C23: once the flag is set the engines are never constructed or replaced
\* again: in every later step the flag stays set, no run of _load_engines
\* starts or changes, the shared object and its engine references stay as they
\* are, and no call goes on to wait for the lock (a call made after the flag
\* was set finds _instance and the flag set and skips both with blocks).
C23_NeverConstructedAgain ==
    [][initialized =>
          /\ initialized'
          /\ runs' = runs
          /\ objects' = objects
          /\ instance' = instance
          /\ \A t \in Threads :
                threads'[t].pc \in AtLock => threads[t].pc = threads'[t].pc]_vars

\* After one thread has loaded the engines, another has made a whole call
\* without taking the lock and holds the same object.
C23_Witness ==
    /\ initialized
    /\ \E t, u \in Threads :
          /\ t # u
          /\ "load" \in threads[u].locked
          /\ threads[t].pc = "returned"
          /\ threads[t].locked = {}
          /\ threads[t].ret = instance

\* The positions at which a thread holds the lock.
InLock ==
    {"new_recheck", "init_recheck", "load_analyzer", "load_anonymizer",
     "warm_up", "set_initialized", "init_unlock", "init_raise"}

\* A thread can take a step of its call.
CanStep(t) ==
    ENABLED (\/ GetCheck(t) \/ NewCheck(t) \/ NewLock(t) \/ NewRecheck(t)
             \/ NewReturn(t) \/ InitCheck(t) \/ InitLock(t) \/ InitRecheck(t)
             \/ LoadAnalyzer(t) \/ LoadAnonymizer(t) \/ WarmUp(t)
             \/ SetInitialized(t) \/ InitUnlock(t) \/ InitRaise(t)
             \/ GetAssign(t) \/ GetReturn(t))

\* A call of the thread is under way.
InCall(t) == threads[t].pc \notin {"idle", "returned", "raised", "ready"}

\* C25: a failed initialization leaves the singleton retryable. Once a warm-up
\* has raised, the one instance object is retained; while no run has warmed up
\* the flag stays unset; a thread whose call has raised holds no lock, and the
\* lock is only ever held by a thread inside a with block; every call under
\* way can step unless it waits for the lock while another thread, which can
\* step, holds it (no call deadlocks). Every run of _load_engines, a retry included, works on
\* that instance, and a call that returns after the retry warmed up returns it
\* with both engines those of a run that warmed up.
C25_RetryableAfterFailure ==
    /\ WarmUpFailed # {} => (instance # None /\ Len(objects) = 1)
    /\ Warmed = {} => ~initialized
    /\ \A t \in Threads :
          /\ threads[t].pc = "raised" => lock # t
          /\ lock = t => threads[t].pc \in InLock
          /\ InCall(t) =>
                \/ threads[t].pc \in AtLock /\ lock \in Threads \ {t}
                \/ CanStep(t)
          /\ threads[t].pc \in Constructing => threads[t].self = instance
          /\ (WarmUpFailed # {} /\ threads[t].pc = "returned") =>
                /\ threads[t].ret = instance
                /\ initialized
                /\ objects[instance].analyzer_engine \in Warmed
                /\ objects[instance].anonymizer_engine \in Warmed

\* One thread's warm-up raised; another thread, which was waiting for the
\* lock of __init__ meanwhile, loaded the engines itself and returned.
C25_Witness ==
    \E t, u \in Threads :
       /\ t # u
       /\ threads[t].pc = "raised"
       /\ WarmUpFailed # {}
       /\ threads[u].pc = "returned"
       /\ "load" \in threads[u].locked
       /\ threads[u].ret = instance

\* The OCR entries whose text has a character that is not whitespace, and the
\* boxes of a set of entries in OCR order.
NonEmptyWords(ocr_data) ==
    { i \in 1..Len(ocr_data) :
        \E k \in 1..Len(ocr_data[i].text) : ocr_data[i].text[k] # " " }
BoxesAt(ocr_data, entries) ==
    LET kept == SelectSeq([i \in 1..Len(ocr_data) |-> i], LAMBDA i : i \in entries)
    IN [k \in 1..Len(kept) |-> [x |-> ocr_data[kept[k]].left,
                                y |-> ocr_data[kept[k]].top,
                                width |-> ocr_data[kept[k]].width,
                                height |-> ocr_data[kept[k]].height]]

\* C26: in find_text_positions an OCR word that is empty after trimming never
\* contributes a box (the boxes returned are those of some of the non-empty
\* words), and for a finding whose text is empty or all whitespace the boxes
\* returned are those of all the non-empty words.
C26_EmptyWordsAndEmptyTarget ==
    MaskerReturned =>
        \A f \in 1..Len(img.pii_findings) :
            LET words == NonEmptyWords(img.ocr_data)
                text == img.pii_findings[f].text
            IN /\ \E some \in SUBSET words :
                      img.positions[f] = BoxesAt(img.ocr_data, some)
               /\ (\A k \in 1..Len(text) : text[k] = " ") =>
                      img.positions[f] = BoxesAt(img.ocr_data, words)

\* A whitespace-only finding on an image with an entry without text and a
\* word that has nothing to do with the finding: the word's box alone.
C26_Witness ==
    /\ MaskerReturned
    /\ Len(img.ocr_data) = 2
    /\ Cardinality(NonEmptyWords(img.ocr_data)) = 1
    /\ \E f \in 1..Len(img.pii_findings) :
           /\ img.pii_findings[f].text = <<" ">>
           /\ Len(img.positions[f]) = 1

\* C27: analyze_text returns one finding per engine result, in the engine's
\* order, with entity_type, start, end and score copied and text the
\* characters of the analysed text at the positions p with start <= p < end
\* (those that exist); nothing is dropped, reordered, merged or added, and a
\* call that did not reach the engine returns no finding.
C27_OneFindingPerResult ==
    (Detected /\ det.out.kind = "list") =>
        LET findings == det.out.findings
            results == det.out.results
        IN /\ det.out.engine = "not called" => findings = <<>>
           /\ Len(findings) = Len(results)
           /\ \A i \in 1..Len(results) :
                  LET f == findings[i]
                      r == results[i]
                      inside == {p \in 0..(Len(det.text) - 1) : r.start <= p /\ p < r.end}
                  IN /\ f.entity_type = r.entity_type
                     /\ f.start = r.start
                     /\ f.end = r.end
                     /\ f.score = r.score
                     /\ Len(f.text) = Cardinality(inside)
                     /\ \A k \in 1..Len(f.text) : f.text[k] = det.text[r.start + k]

\* The engine emitted two different results, the first of them for a span
\* that does not start the text.
C27_Witness ==
    /\ Detected
    /\ Len(det.out.findings) = 2
    /\ det.out.results[1] # det.out.results[2]
    /\ det.out.findings[1].start > 0
    /\ det.out.findings[1].text # <<>>

\* The sum of f over the finite set S.
RECURSIVE SumOver(_, _)
SumOver(f, S) ==
    IF S = {} THEN 0
    ELSE LET x == CHOOSE y \in S : TRUE
         IN  f[x] + SumOver(f, S \ {x})

\* The scanned rows whose cell of the column holds a text with findings.
RowsWithFindings(column) ==
    {idx \in csv.analysis.scanned :
        /\ ~At(csv.df, idx, column).isna
        /\ CsvFindings(csv.flagged, At(csv.df, idx, column).text) # <<>>}

\* C28: in the result of analyze_dataframe, for every column, has_pii holds
\* iff pii_count > 0; pii_count is the length of all_findings and the number
\* of scanned cells of the column with a finding; the values of pii_types sum
\* to the number of findings in those cells, at least pii_count; the
\* row_index values are, one each, the labels of the scanned rows with a
\* finding in the column, each with that cell's text and findings; and
\* total_pii_instances of analyze_csv is the sum of pii_count over the columns.
C28_ColumnResultsConsistent ==
    csv.pc = "returned" =>
       /\ DOMAIN csv.column_results = Range(csv.df.columns)
       /\ \A column \in Range(csv.df.columns) :
             LET r == csv.column_results[column]
                 with == RowsWithFindings(column)
                 count == [idx \in with |->
                             Len(CsvFindings(csv.flagged,
                                             At(csv.df, idx, column).text))]
             IN  /\ r.has_pii <=> r.pii_count > 0
                 /\ r.pii_count = Len(r.all_findings)
                 /\ r.pii_count = Cardinality(with)
                 /\ SumOver(r.pii_types, DOMAIN r.pii_types) = SumOver(count, with)
                 /\ SumOver(r.pii_types, DOMAIN r.pii_types) >= r.pii_count
                 /\ {r.all_findings[i].row_index : i \in DOMAIN r.all_findings} = with
                 /\ \A i \in DOMAIN r.all_findings :
                       LET item == r.all_findings[i]
                       IN  /\ item.row_index \in Range(csv.df.index)
                           /\ item.row_index \in csv.analysis.scanned
                           /\ Str(item.value) = At(csv.df, item.row_index, column)
                           /\ item.pii_findings =
                                 CsvFindings(csv.flagged, item.value)
       /\ csv.summary.total_pii_instances =
             SumOver([column \in Range(csv.df.columns) |->
                         csv.column_results[column].pii_count],
                     Range(csv.df.columns))
       /\ csv.summary.columns_with_pii =
             Cardinality({column \in Range(csv.df.columns) :
                             RowsWithFindings(column) # {}})

\* A sampled analysis of three rows scanned rows 2 and 0 in that order; one
\* column has two cells with two findings each, the other has none, a
\* missing value among its cells.
C28_Witness ==
    /\ csv.pc = "returned"
    /\ csv.analysis.is_sampled
    /\ Len(csv.df.index) = 3
    /\ LET r == csv.column_results["name"]
       IN  /\ r.pii_count = 2
           /\ r.all_findings[1].row_index = 2
           /\ r.all_findings[2].row_index = 0
           /\ r.pii_types = [entity_type \in {"PERSON", "EMAIL_ADDRESS"} |-> 2]
    /\ ~csv.column_results["email"].has_pii
    /\ \E idx \in csv.analysis.scanned : At(csv.df, idx, "email").isna
    /\ csv.summary.total_pii_instances = 2

\* C29: anonymize_dataframe leaves the DataFrame it is given as it was; it
\* calls the detector once for every cell that is not missing, on that
\* cell's text, and for no missing cell; a cell that is missing or whose text
\* has no finding is the same in the anonymized table; every other cell holds
\* the anonymizer's output for its own text and findings.
C29_OnlyCellsWithFindingsReplaced ==
    Redacted =>
       LET present == {p \in DOMAIN csv.df.cells : ~csv.df.cells[p].isna}
           sent == {<<csv.calls[i].idx, csv.calls[i].column>> :
                       i \in DOMAIN csv.calls}
       IN  /\ csv.df_after = csv.df
           /\ sent = present
           /\ Len(csv.calls) = Cardinality(present)
           /\ \A i \in DOMAIN csv.calls :
                 Str(csv.calls[i].text) =
                    csv.df.cells[<<csv.calls[i].idx, csv.calls[i].column>>]
           /\ \A p \in DOMAIN csv.df.cells :
                 LET value == csv.df.cells[p]
                     pii_findings == CsvFindings(csv.flagged, value.text)
                 IN  IF value.isna \/ pii_findings = <<>>
                        THEN csv.anonymized.cells[p] = value
                        ELSE /\ csv.anonymized.cells[p] =
                                   Str(Anonymize(value.text, pii_findings))
                             /\ csv.anonymized.cells[p] # value

\* A table of three rows was redacted: one email is missing, one has no
\* finding, one was replaced, and none of the rows but one was sampled.
C29_Witness ==
    /\ Redacted
    /\ Len(csv.df.index) = 3
    /\ csv.analysis.analyzed_rows = 1
    /\ csv.df.cells[<<0, "email">>].isna
    /\ csv.df.cells[<<1, "email">>] = Str(<<"a">>)
    /\ csv.anonymized.cells[<<2, "email">>] = Str(<<"<PERSON>", "<EMAIL_ADDRESS>">>)
    /\ Len(csv.calls) = 5

\* The positions in the log of the calls with one of the names.
CallsOf(log, names) == {i \in DOMAIN log : log[i].name \in names}

\* The artifact was written.
Written == \E i \in CallsOf(job.log, PersistCalls) : job.log[i].ok

StepOf(name) ==
    CASE name \in {"pdfplumber.open", "page.extract_text", "pd.read_csv",
                   "pytesseract.image_to_string",
                   "pytesseract.image_to_data"} -> 1
      [] name = "analyzer.analyze" -> 2
      [] name = "anonymizer.anonymize" -> 3
      [] name \in {"Paragraph", "draw.rectangle"} -> 4
      [] name \in PersistCalls -> 5
      [] OTHER -> 0

\* C24: within one document the steps run in order and each at most once:
\* no call of a step is made after a call of a later step, so that
\* extraction is over before detection starts, detection before
\* anonymization and position resolution, and the artifact is redacted and
\* written last.
C24_StepsInOrderOnce ==
    job.pc = "returned" =>
       \A i, j \in DOMAIN job.log :
          (i < j /\ StepOf(job.log[i].name) # 0 /\ StepOf(job.log[j].name) # 0)
             => StepOf(job.log[i].name) <= StepOf(job.log[j].name)

C22_ArtifactsNotShared ==
    \A k \in DOMAIN up.answered :
       LET answer == up.answered[k]
           own == Artifact(answer.request.doc,
                           FindingsOfDocument(answer.request.findings))
       IN  answer.response.masked_file # NoOutput =>
              /\ ReadFile(up.files, answer.response.masked_file) = own
              /\ up.downloads[k] \in {Absent, own}

\* The singleton on its own: no detection request, no CSV call.
Init == SInit /\ det = NoDet /\ csv = NoCsv /\ smp = NoSmp /\ rd = NoRd /\ img = NoImg /\ pdf = NoPdf /\ flt = NoFlt /\ job = NoJob /\ up = NoUp
Next == SNext
Spec == Init /\ [][Next]_vars

\* The detectors on their own: one request, drawn by InitDetect, is served.
InitDetect == SInit /\ DInit /\ csv = NoCsv /\ smp = NoSmp /\ rd = NoRd /\ img = NoImg /\ pdf = NoPdf /\ flt = NoFlt /\ job = NoJob /\ up = NoUp
NextDetect == DNext
SpecDetect == InitDetect /\ [][NextDetect]_vars

\* The CSV redaction on its own: one analyze_csv call, drawn by InitCsv.
InitCsv == SInit /\ det = NoDet /\ CInit /\ smp = NoSmp /\ rd = NoRd /\ img = NoImg /\ pdf = NoPdf /\ flt = NoFlt /\ job = NoJob /\ up = NoUp
NextCsv == CNext
SpecCsv == InitCsv /\ [][NextCsv]_vars

\* Repeated analyses of one table.
InitSample == SInit /\ det = NoDet /\ csv = NoCsv /\ MInit /\ rd = NoRd /\ img = NoImg /\ pdf = NoPdf /\ flt = NoFlt /\ job = NoJob /\ up = NoUp
NextSample == MNext
SpecSample == InitSample /\ [][NextSample]_vars
\* One read_csv call.
InitRead == SInit /\ det = NoDet /\ csv = NoCsv /\ smp = NoSmp /\ RInit /\ img = NoImg /\ pdf = NoPdf /\ flt = NoFlt /\ job = NoJob /\ up = NoUp
NextRead == RNext
SpecRead == InitRead /\ [][NextRead]_vars

\* The image masker: one call of create_masked_image or of the command line.
InitImage == SInit /\ det = NoDet /\ csv = NoCsv /\ smp = NoSmp /\ rd = NoRd /\ IInit /\ pdf = NoPdf /\ flt = NoFlt /\ job = NoJob /\ up = NoUp
NextImage == INext
SpecImage == InitImage /\ [][NextImage]_vars

\* The PDF masker: one call of create_masked_pdf.
InitPdf == SInit /\ det = NoDet /\ csv = NoCsv /\ smp = NoSmp /\ rd = NoRd /\ img = NoImg /\ PInit /\ flt = NoFlt /\ job = NoJob /\ up = NoUp
NextPdf == PNext
SpecPdf == InitPdf /\ [][NextPdf]_vars

\* The entity filter: one request, by HTTP or on the command line.
InitFilter == SInit /\ det = NoDet /\ csv = NoCsv /\ smp = NoSmp /\ rd = NoRd /\ img = NoImg /\ pdf = NoPdf /\ FInit /\ job = NoJob /\ up = NoUp
NextFilter == FNext
SpecFilter == InitFilter /\ [][NextFilter]_vars

\* One document through its pipeline: one request, drawn by InitJob.
InitJob == SInit /\ det = NoDet /\ csv = NoCsv /\ smp = NoSmp /\ rd = NoRd /\ img = NoImg /\ pdf = NoPdf /\ flt = NoFlt /\ JInit /\ up = NoUp
NextJob == JNext
SpecJob == InitJob /\ [][NextJob]_vars

\* The uploads of a server, one after the other, and their downloads.
InitUploads == SInit /\ det = NoDet /\ csv = NoCsv /\ smp = NoSmp /\ rd = NoRd /\ img = NoImg /\ pdf = NoPdf /\ flt = NoFlt /\ job = NoJob /\ UInit
NextUploads == UNext
SpecUploads == InitUploads /\ [][NextUploads]_vars

====
